---- MODULE Spec2Model ----
(***************************************************************************)
(* A model of the Aviator crash-game prototype.                            *)
(*                                                                         *)
(*  - MockGameEngine (src/README.md 68-216): the round state machine, its  *)
(*    tick, the crash-point generator and the subscriber fan-out.          *)
(*  - AviatorScene (src/game/AviatorScene.ts): init(), destroy(),          *)
(*    updateState() and what they call.                                    *)
(*  - SceneManager (src/game/core/SceneManager.ts): init() and destroy().  *)
(*                                                                         *)
(* Numbers.  Multipliers and crash points are held in hundredths (1.00 is  *)
(* 100): the engine only ever stores values that went through toFixed(2).  *)
(* Times are milliseconds, the unit of Date.now().  The engine reads the   *)
(* clock only as the difference Date.now() - startTime, which is the       *)
(* variable elapsedMs; the wall-clock timestamp of a history entry is read *)
(* by no operation and is left out of the entry.                           *)
(***************************************************************************)
EXTENDS Integers, Sequences, FiniteSets, TLC

VARIABLES
  constructed,     \* the MockGameEngine constructor has returned
  state,           \* MockGameEngine.state : EngineState
  listeners,       \* MockGameEngine.listeners, a Set in insertion order
  crashPoint,      \* MockGameEngine.crashPoint, hundredths
  elapsedMs,       \* Date.now() - MockGameEngine.startTime
  loopInterval,    \* the interval timer is armed
  roundIdCounter,  \* MockGameEngine.roundIdCounter
  rngStream,       \* the stream Math.random() draws from in this run
  rngPos,          \* draws consumed so far, modulo the stream's length
  unsubFns,        \* listeners whose subscribe() returned an unsubscribe closure
  lastOp,          \* the operation that ran last
  notified,        \* the listener calls that operation made, in order
  thrown,          \* the listener that threw in that operation, 0 if none
  roundCap,        \* rounds followed in this run
  twin,            \* a second engine run side by side with the first, and its stream
  \* AviatorScene
  app,                    \* AviatorScene.app: 0 for null, else an Application of apps
  isInitialized,
  isDestroyed,
  planeSprite,            \* a Sprite was created and is held in planeSprite
  planeGraphics,          \* a Graphics was created and is held in planeGraphics
  plane,                  \* the display object's visible, alpha, x, y, rotation
  width, height, isMobile,
  currentState,
  currentMultiplier,      \* hundredths, or a non-finite number
  elapsedSeconds,         \* milliseconds, or a non-finite number
  curvePoints,
  trailPoints,
  exhaustParticles,       \* number of live exhaust particles
  explosionParticles,     \* number of live explosion particles
  particleAges,           \* the live particles by age: batches [n, age in ms], oldest first
  particlePool,           \* number of pooled particles
  explosionParticlePool,  \* number of pooled explosion particles
  planeScale, planeRotationTarget, planeRotationCurrent, flightTime,
  flyAwayPhysics, flyAwayStart, crashFlashAlpha,
  maxTimeWindow, maxMultWindow, scaleX, scaleY,
  \* SceneManager
  smApp, smIsInitialized, smIsDestroyed,
  \* pixi.js Applications created so far, and the init() calls made so far
  apps,
  initCalls,
  initCap,                \* init() calls followed in this run, per object
  \* ViewportSystem
  viewport,               \* ViewportSystem.viewport
  psParticlePool,         \* ParticleSystem.particlePool, the objects by identity
  psExplosionParticlePool, \* ParticleSystem.explosionParticlePool
  psAllocated,            \* Particle objects created so far, per kind
  psHeld,                 \* references the callers of ParticleSystem hold, per kind, and those kept after recycling
  psCalls,                \* calls of the ParticleSystem methods so far
  faPhysics,              \* FlyAwayAnimation.physics
  faStartXY,              \* FlyAwayAnimation.startX, startY
  faStarts,               \* start() calls so far
  faCap,                  \* start() calls followed in this run
  frameMs,                \* the frame interval of this run: deltaTime, in ms
  exhaustEffect,          \* ExhaustEffect: isMobile and particles, each [id, life in ms]
  explosionEffect,        \* ExplosionEffect: isMobile, particles, elapsedTime in ms, stage2Emitted
  fxLog,                  \* the effect call that ran last, the particles it recycled, and the bursts so far
  psCap                   \* references the callers hold at a time in this run, per kind

engineVars == <<constructed, state, listeners, crashPoint, elapsedMs, loopInterval,
                roundIdCounter, rngStream, rngPos, unsubFns, lastOp, notified, thrown,
                roundCap, twin>>

sceneVars == <<plane, width, height, isMobile, currentState, currentMultiplier,
               elapsedSeconds, curvePoints, trailPoints, exhaustParticles,
               explosionParticles, particleAges, particlePool,
               explosionParticlePool, planeScale,
               planeRotationTarget, planeRotationCurrent, flightTime, flyAwayPhysics,
               flyAwayStart, crashFlashAlpha, maxTimeWindow, maxMultWindow,
               scaleX, scaleY>>

lifeVars == <<app, isInitialized, isDestroyed, planeSprite, planeGraphics,
              smApp, smIsInitialized, smIsDestroyed, apps, initCalls, initCap>>

effectVars == <<exhaustEffect, explosionEffect, fxLog>>

poolVars ==
  <<psParticlePool, psExplosionParticlePool, psAllocated, psHeld, psCalls, psCap,
    effectVars>>

flyAwayVars == <<faPhysics, faStartXY, faStarts, faCap, frameMs>>

systemVars == <<viewport, poolVars, flyAwayVars>>

vars == <<engineVars, sceneVars, lifeVars, systemVars>>

----------------------------------------------------------------------------
(* Bounds of the model *)

\* Rounds followed in a run with subscribers.
MaxRounds == 2

\* Rounds followed in a run of the engine alone: one more than HISTORY_LIMIT,
\* so that the history overflows.
HistoryRounds == 21

\* Listener functions the host may subscribe: 1..MaxListeners.
MaxListeners == 2

\* A phase is followed for at most this many milliseconds.
MaxElapsedMs == 74000

\* Math.random() returns k / RandUnits for k in 0..RandUnits-1.
RandUnits == 1000

Listeners == 1..MaxListeners

\* Clock advance between two timer callbacks (nominally 16 ms; a throttled or
\* busy page delays callbacks arbitrarily, and two may run in the same ms).
TickSteps == {0, 500, 2000}

\* The streams of Math.random() values (in 1/RandUnits) of the runs explored,
\* each repeated cyclically.
RandomStreams ==
  { <<500, 340>>,                       \* 1.50 every round
    <<5>>,                              \* instant crash every round
    <<20, 999, 990, 5, 5, 5, 300, 500>> \* 100.00 (capped), 1.00 (floored), instant, 1.98
  }

----------------------------------------------------------------------------
(* Program constants *)

BETTING_DURATION == 5000
POST_CRASH_DURATION == 3000
HISTORY_LIMIT == 20

Min(a, b) == IF a < b THEN a ELSE b
Max(a, b) == IF a > b THEN a ELSE b

\* Number.prototype.toFixed(2) of the quotient num / den (both positive), in
\* hundredths: the nearest hundredth, a tie going up.
ToFixed2(num, den) == (2 * 100 * num + den) \div (2 * den)

\* parseFloat(Math.exp(0.065 * seconds).toFixed(2)) in hundredths, tabulated
\* every 500 ms from 0 ms.
ExpTable ==
  <<
      100, 103, 107, 110, 114, 118, 122, 126, 130, 134,
      138, 143, 148, 153, 158, 163, 168, 174, 179, 185,
      192, 198, 204, 211, 218, 225, 233, 240, 248, 257,
      265, 274, 283, 292, 302, 312, 322, 333, 344, 355,
      367, 379, 392, 405, 418, 432, 446, 461, 476, 492,
      508, 525, 542, 560, 578, 597, 617, 638, 659, 680,
      703, 726, 750, 775, 800, 827, 854, 882, 912, 942,
      973, 1005, 1038, 1072, 1108, 1144, 1182, 1221, 1262, 1303,
      1346, 1391, 1437, 1484, 1533, 1584, 1636, 1690, 1746, 1804,
      1863, 1925, 1989, 2054, 2122, 2192, 2265, 2339, 2417, 2497,
      2579, 2664, 2752, 2843, 2937, 3034, 3134, 3238, 3345, 3455,
      3569, 3687, 3809, 3935, 4065, 4199, 4338, 4481, 4629, 4782,
      4940, 5103, 5272, 5446, 5626, 5812, 6004, 6202, 6407, 6619,
      6837, 7063, 7297, 7538, 7787, 8044, 8310, 8584, 8868, 9161,
      9463, 9776, 10099, 10432, 10777, 11133, 11501, 11881, 12273, 12679
  >>

RawMultiplier(ms) == ExpTable[(ms \div 500) + 1]

----------------------------------------------------------------------------
(* MockGameEngine: the private operations, as functions of the engine's    *)
(* fields e = [state, crashPoint, elapsedMs, roundIdCounter, rngPos].      *)

\* The fields after the field initialisers, before the constructor body.
FieldInit ==
  [ state |-> [gameState |-> "IDLE", currentMultiplier |-> 100,
               countdown |-> 0, history |-> << >>],
    crashPoint |-> 100, elapsedMs |-> 0, roundIdCounter |-> 1, rngPos |-> 0 ]

\* The k-th coming value of Math.random(), k = 0 being the next one.
Draw(stream, pos, k) == stream[((pos + k) % Len(stream)) + 1]

\* CrashPointOf without `if (crash > 100) crash = 100`.
CrashPointOf_NoCap(d1, r) ==
  IF d1 * 100 < RandUnits
    THEN 100
    ELSE LET num == 99 * RandUnits
             den == 100 * (RandUnits - r)
             crash == IF num < den THEN [n |-> 1, d |-> 1] ELSE [n |-> num, d |-> den]
         IN ToFixed2(crash.n, crash.d)

\* The crash point generateNextCrashPoint stores when Math.random() returns
\* first d1 / RandUnits and then, if drawn at all, r / RandUnits.
CrashPointOf(d1, r) ==
  IF d1 * 100 < RandUnits
    THEN 100
    ELSE LET num == 99 * RandUnits             \* crash = 0.99 / (1 - r)
             den == 100 * (RandUnits - r)      \*       = num / den
             crash == IF num > 100 * den THEN [n |-> 100, d |-> 1]
                      ELSE IF num < den THEN [n |-> 1, d |-> 1]
                      ELSE [n |-> num, d |-> den]
         IN ToFixed2(crash.n, crash.d)

GenerateNextCrashPoint(e, stream) ==
  LET d1 == Draw(stream, e.rngPos, 0)
      r  == Draw(stream, e.rngPos, 1)
      used == IF d1 * 100 < RandUnits THEN 1 ELSE 2
  IN [e EXCEPT !.crashPoint = CrashPointOf(d1, r),
               !.rngPos = (e.rngPos + used) % Len(stream)]

\* EnterBettingPhase showing the drawn crash point as the multiplier.
EnterBettingPhase_Announce(e, stream) ==
  LET drawn == GenerateNextCrashPoint([e EXCEPT !.elapsedMs = 0], stream)
  IN [drawn EXCEPT !.state.gameState = "BETTING",
                   !.state.currentMultiplier = drawn.crashPoint]

\* EnterBettingPhase keeping the crash point of the round before.
EnterBettingPhase_NoDraw(e, stream) ==
  [e EXCEPT !.state.gameState = "BETTING",
            !.state.currentMultiplier = 100,
            !.elapsedMs = 0]

EnterBettingPhase(e, stream) ==
  GenerateNextCrashPoint(
    [e EXCEPT !.state.gameState = "BETTING",
              !.state.currentMultiplier = 100,
              !.elapsedMs = 0],
    stream)

EnterFlyingPhase(e) ==
  [e EXCEPT !.state.gameState = "FLYING",
            !.state.currentMultiplier = 100,
            !.elapsedMs = 0]

\* PushHistory appending the new item instead of prepending it.
PushHistory_Append(history, item) ==
  SubSeq(history \o <<item>>, 1, Min(Len(history) + 1, HISTORY_LIMIT))

\* [newItem, ...history].slice(0, 20)
PushHistory(history, item) ==
  SubSeq(<<item>> \o history, 1, Min(Len(history) + 1, HISTORY_LIMIT))

\* EnterCrashedPhase resetting the multiplier instead of snapping it.
EnterCrashedPhase_Reset(e) ==
  [e EXCEPT !.state.gameState = "CRASHED",
            !.state.currentMultiplier = 100,
            !.elapsedMs = 0,
            !.state.history =
               <<[multiplier |-> e.crashPoint, roundId |-> e.roundIdCounter]>>
                 \o e.state.history,
            !.roundIdCounter = e.roundIdCounter + 1]

\* EnterCrashedPhase keeping the multiplier the tick computed instead of
\* snapping it to the crash point.
EnterCrashedPhase_NoSnap(e) ==
  [e EXCEPT !.state.gameState = "CRASHED",
            !.elapsedMs = 0,
            !.state.history =
               PushHistory(e.state.history,
                           [multiplier |-> e.crashPoint, roundId |-> e.roundIdCounter]),
            !.roundIdCounter = e.roundIdCounter + 1]

\* EnterCrashedPhase numbering the round without advancing the counter.
EnterCrashedPhase_SameId(e) ==
  [e EXCEPT !.state.gameState = "CRASHED",
            !.state.currentMultiplier = e.crashPoint,
            !.elapsedMs = 0,
            !.state.history =
               PushHistory(e.state.history,
                           [multiplier |-> e.crashPoint, roundId |-> e.roundIdCounter])]

EnterCrashedPhase(e) ==
  [e EXCEPT !.state.gameState = "CRASHED",
            !.state.currentMultiplier = e.crashPoint,
            !.elapsedMs = 0,
            !.state.history =
               PushHistory(e.state.history,
                           [multiplier |-> e.crashPoint, roundId |-> e.roundIdCounter]),
            !.roundIdCounter = e.roundIdCounter + 1]

\* TickBetting leaving BETTING only once more than 5 s have passed (< for <=).
TickBetting_Late(e) ==
  LET remaining == Max(0, BETTING_DURATION - e.elapsedMs)
      counted == [e EXCEPT !.state.countdown = remaining]
  IN IF e.elapsedMs > BETTING_DURATION THEN EnterFlyingPhase(counted) ELSE counted

TickBetting(e) ==
  LET remaining == Max(0, BETTING_DURATION - e.elapsedMs)
      counted == [e EXCEPT !.state.countdown = remaining]
  IN IF remaining <= 0 THEN EnterFlyingPhase(counted) ELSE counted

\* TickFlying crashing only above the crash point (> for >=).
TickFlying_Strict(e) ==
  LET risen == [e EXCEPT !.state.currentMultiplier = RawMultiplier(e.elapsedMs)]
  IN IF risen.state.currentMultiplier > risen.crashPoint
       THEN [risen EXCEPT !.state.gameState = "CRASHED",
                          !.state.currentMultiplier = risen.crashPoint,
                          !.elapsedMs = 0,
                          !.state.history =
                             <<[multiplier |-> risen.crashPoint,
                                roundId |-> risen.roundIdCounter]>>
                               \o risen.state.history,
                          !.roundIdCounter = risen.roundIdCounter + 1]
       ELSE risen

\* TickFlying without the test against the crash point.
TickFlying_NoCrash(e) ==
  [e EXCEPT !.state.currentMultiplier = RawMultiplier(e.elapsedMs)]

TickFlying(e) ==
  LET risen == [e EXCEPT !.state.currentMultiplier = RawMultiplier(e.elapsedMs)]
  IN IF risen.state.currentMultiplier >= risen.crashPoint
       THEN EnterCrashedPhase(risen)
       ELSE risen

\* TickCrashed parking the engine in IDLE when the post-crash delay is over.
TickCrashed_ToIdle(e, stream) ==
  IF e.elapsedMs > POST_CRASH_DURATION
    THEN [e EXCEPT !.state.gameState = "IDLE", !.elapsedMs = 0]
    ELSE e

\* TickCrashed leaving CRASHED as soon as 3 s have passed (>= for >).
TickCrashed_AtThreshold(e, stream) ==
  IF e.elapsedMs >= POST_CRASH_DURATION THEN EnterBettingPhase(e, stream) ELSE e

TickCrashed(e, stream) ==
  IF e.elapsedMs > POST_CRASH_DURATION THEN EnterBettingPhase(e, stream) ELSE e

\* tick() up to its emit(), the clock having advanced by d since the last read.
TickBody(e, stream, d) ==
  LET now == [e EXCEPT !.elapsedMs = e.elapsedMs + d]
  IN CASE now.state.gameState = "BETTING" -> TickBetting(now)
       [] now.state.gameState = "FLYING"  -> TickFlying(now)
       [] now.state.gameState = "CRASHED" -> TickCrashed(now, stream)
       [] OTHER -> now

----------------------------------------------------------------------------
(* MockGameEngine: the operations the host and the timer run. *)

Eng ==
  [ state |-> state, crashPoint |-> crashPoint, elapsedMs |-> elapsedMs,
    roundIdCounter |-> roundIdCounter, rngPos |-> rngPos ]

SetEng(e) ==
  /\ state' = e.state
  /\ crashPoint' = e.crashPoint
  /\ elapsedMs' = e.elapsedMs
  /\ roundIdCounter' = e.roundIdCounter
  /\ rngPos' = e.rngPos

SeqRange(q) == { q[i] : i \in 1..Len(q) }

\* A call listener(obj): obj is this.state itself (live) or a spread copy of it.
Call(l, snap, live) == [listener |-> l, snap |-> snap, live |-> live]

\* listeners.forEach(listener => listener({ ...this.state })) on the state s,
\* when the k-th listener called throws (k = 0: none does): forEach stops there.
EmitCalls(ls, s, k) ==
  [i \in 1..(IF k = 0 THEN Len(ls) ELSE k) |-> Call(ls[i], s, FALSE)]

\* A call listener({ ...this.state }) made by emit(); unsub: the listener
\* calls its own unsubscribe closure before it returns.
CallInEmit(l, snap, unsub) ==
  [listener |-> l, snap |-> snap, live |-> FALSE, unsubscribes |-> unsub]

\* An iteration over an array copy-free with splice: removing the entry under
\* the cursor moves the next one into its place, and the cursor steps over it.
RECURSIVE EmitWalk_Splice(_, _, _, _)
EmitWalk_Splice(entries, i, s, unsubs) ==
  IF i > Len(entries) THEN [calls |-> << >>, entries |-> entries]
  ELSE LET l == entries[i]
           after == IF l \in unsubs
                      THEN SubSeq(entries, 1, i - 1) \o SubSeq(entries, i + 1, Len(entries))
                      ELSE entries
           rest == EmitWalk_Splice(after, i + 1, s, unsubs)
       IN [calls |-> << CallInEmit(l, s, l \in unsubs) >> \o rest.calls,
           entries |-> rest.entries]

\* Set.prototype.forEach over the entry list of listeners, from entry i on,
\* when the listeners of unsubs delete themselves during their call:
\* delete() empties the entry (0) without moving the others, and forEach
\* steps over empty entries.
RECURSIVE EmitWalk(_, _, _, _)
EmitWalk(entries, i, s, unsubs) ==
  IF i > Len(entries) THEN [calls |-> << >>, entries |-> entries]
  ELSE IF entries[i] = 0 THEN EmitWalk(entries, i + 1, s, unsubs)
  ELSE LET l == entries[i]
           after == IF l \in unsubs THEN [entries EXCEPT ![i] = 0] ELSE entries
           rest == EmitWalk(after, i + 1, s, unsubs)
       IN [calls |-> << CallInEmit(l, s, l \in unsubs) >> \o rest.calls,
           entries |-> rest.entries]

\* The engine before its constructor runs: the field initialisers, the
\* Math.random() stream of the run and the number of rounds followed.
EngineFields(streams, cap) ==
  /\ constructed = FALSE
  /\ state = FieldInit.state
  /\ crashPoint = FieldInit.crashPoint
  /\ elapsedMs = FieldInit.elapsedMs
  /\ roundIdCounter = FieldInit.roundIdCounter
  /\ rngPos = FieldInit.rngPos
  /\ rngStream \in streams
  /\ listeners = << >>
  /\ loopInterval = "null"
  /\ unsubFns = {}
  /\ lastOp = "none"
  /\ notified = << >>
  /\ thrown = 0
  /\ roundCap = cap

\* No second engine is run.
NoTwin == [e |-> FieldInit, stream |-> << 5 >>]

EngineStart(streams, cap) == EngineFields(streams, cap) /\ twin = NoTwin

\* new MockGameEngine(): startLoop() enters BETTING and arms the timer.
Construct ==
  /\ ~constructed
  /\ constructed' = TRUE
  /\ SetEng(EnterBettingPhase(Eng, rngStream))
  /\ loopInterval' = "armed"
  /\ lastOp' = "construct"
  /\ UNCHANGED <<listeners, rngStream, unsubFns, notified, thrown, roundCap,
                 twin, sceneVars, lifeVars, systemVars>>

\* subscribe(listener); throws: the listener throws on its immediate call, and
\* subscribe() then returns no unsubscribe closure.
Subscribe(l, throws) ==
  /\ constructed
  /\ listeners' = IF l \in SeqRange(listeners) THEN listeners ELSE Append(listeners, l)
  /\ notified' = << Call(l, state, TRUE) >>
  /\ thrown' = IF throws THEN l ELSE 0
  /\ unsubFns' = IF throws THEN unsubFns ELSE unsubFns \cup {l}
  /\ lastOp' = "subscribe"
  /\ UNCHANGED <<constructed, state, crashPoint, elapsedMs, loopInterval,
                 roundIdCounter, rngStream, rngPos, roundCap,
                 twin, sceneVars, lifeVars, systemVars>>

\* The closure subscribe(l) returned: () => this.listeners.delete(l).
Unsubscribe(l) ==
  /\ l \in unsubFns
  /\ listeners' = SelectSeq(listeners, LAMBDA x : x # l)
  /\ lastOp' = "unsubscribe"
  /\ notified' = << >>
  /\ thrown' = 0
  /\ UNCHANGED <<constructed, state, crashPoint, elapsedMs, loopInterval,
                 roundIdCounter, rngStream, rngPos, unsubFns, roundCap,
                 twin, sceneVars, lifeVars, systemVars>>

\* The interval callback: tick(), d ms after the previous clock reading, the
\* k-th listener throwing out of emit() (k = 0: none).
Tick(d, k) ==
  /\ loopInterval = "armed"
  /\ elapsedMs + d <= MaxElapsedMs
  /\ LET e == TickBody(Eng, rngStream, d)
     IN /\ e.roundIdCounter <= roundCap + 1
        /\ SetEng(e)
        /\ notified' = EmitCalls(listeners, e.state, k)
  /\ thrown' = IF k = 0 THEN 0 ELSE listeners[k]
  /\ lastOp' = "tick"
  /\ UNCHANGED <<constructed, listeners, loopInterval, rngStream, unsubFns, roundCap,
                 twin, sceneVars, lifeVars, systemVars>>

\* The interval callback when the listeners of unsubs call their own
\* unsubscribe closure inside their callback, and none throws.
TickUnsubscribing(d, unsubs) ==
  /\ loopInterval = "armed"
  /\ elapsedMs + d <= MaxElapsedMs
  /\ unsubs # {}
  /\ unsubs \subseteq (unsubFns \cap SeqRange(listeners))
  /\ LET e == TickBody(Eng, rngStream, d)
         walk == EmitWalk(listeners, 1, e.state, unsubs)
     IN /\ e.roundIdCounter <= roundCap + 1
        /\ SetEng(e)
        /\ notified' = walk.calls
        /\ listeners' = SelectSeq(walk.entries, LAMBDA x : x # 0)
  /\ thrown' = 0
  /\ lastOp' = "tickUnsubscribing"
  /\ UNCHANGED <<constructed, loopInterval, rngStream, unsubFns, roundCap,
                 twin, sceneVars, lifeVars, systemVars>>

\* cleanup() dropping the subscribers but leaving the timer armed.
Cleanup_KeepsTimer ==
  /\ constructed
  /\ listeners' = << >>
  /\ lastOp' = "cleanup"
  /\ notified' = << >>
  /\ thrown' = 0
  /\ UNCHANGED <<constructed, state, crashPoint, elapsedMs, roundIdCounter,
                 rngStream, rngPos, unsubFns, roundCap, loopInterval,
                 twin, sceneVars, lifeVars, systemVars>>

\* cleanup()
Cleanup ==
  /\ constructed
  /\ loopInterval' = "cleared"
  /\ listeners' = << >>
  /\ lastOp' = "cleanup"
  /\ notified' = << >>
  /\ thrown' = 0
  /\ UNCHANGED <<constructed, state, crashPoint, elapsedMs, roundIdCounter,
                 rngStream, rngPos, unsubFns, roundCap,
                 twin, sceneVars, lifeVars, systemVars>>

EngineNext ==
  \/ Construct
  \/ \E l \in Listeners, throws \in BOOLEAN : Subscribe(l, throws)
  \/ \E l \in Listeners : Unsubscribe(l)
  \/ \E d \in TickSteps : \E k \in 0..Len(listeners) : Tick(d, k)
  \/ Cleanup

----------------------------------------------------------------------------
(* Subscribers that write to what they were handed *)

\* The listener of the i-th call of the last operation writes to the object it
\* was handed, during the call or any time before the next operation:
\*   w = "multiplier":  obj.currentMultiplier = 0
\*   w = "history":     obj.history.pop()
\* subscribe() hands out this.state itself, so a write to it is a write to the
\* engine's state.  emit() hands out { ...this.state }, a new object whose
\* history field is the engine's own array, shared with every other copy.
MutateSnapshot(i, w) ==
  /\ i \in 1..Len(notified)
  /\ lastOp' = "mutate"
  /\ \/ /\ w = "multiplier"
        /\ state' = IF notified[i].live
                      THEN [state EXCEPT !.currentMultiplier = 0]
                      ELSE state
        /\ notified' = [notified EXCEPT ![i].snap.currentMultiplier = 0]
     \/ /\ w = "history"
        /\ Len(state.history) > 0
        /\ LET popped == SubSeq(state.history, 1, Len(state.history) - 1)
           IN /\ state' = [state EXCEPT !.history = popped]
              /\ notified' = [j \in 1..Len(notified) |->
                                [notified[j] EXCEPT !.snap.history = popped]]
  /\ UNCHANGED <<constructed, listeners, crashPoint, elapsedMs, loopInterval,
                 roundIdCounter, rngStream, rngPos, unsubFns, thrown, roundCap,
                 twin, sceneVars, lifeVars, systemVars>>

----------------------------------------------------------------------------
(* AviatorScene (src/game/AviatorScene.ts): numbers.                       *)
(*                                                                         *)
(* updateState's multiplier is held in hundredths and its elapsedSeconds   *)
(* in milliseconds; either may also be one of the three non-finite numbers *)
(* of JavaScript.  Alphas, scales and angles are held in thousandths,      *)
(* positions in pixels, scaleX / scaleY in hundredths of a pixel per unit. *)
(* The fly-away physics holds positions in tenths of a pixel and           *)
(* velocities in thousandths of a pixel per second.  Particles are counted, *)
(* not told apart; the particles of a live list created in the same frame *)
(* share an age, the time their life has been counted down by.            *)

NaN == -2000000001
PosInf == 2000000000
NegInf == -2000000000

\* a < b and a > b on JavaScript numbers: false when either side is NaN.
JsLt(a, b) == a # NaN /\ b # NaN /\ a < b
JsGt(a, b) == a # NaN /\ b # NaN /\ a > b

\* Math.abs(a - b)
JsAbsDiff(a, b) ==
  IF a = NaN \/ b = NaN THEN NaN
  ELSE IF a \in {PosInf, NegInf} /\ b \in {PosInf, NegInf}
         THEN (IF a = b THEN NaN ELSE PosInf)
  ELSE IF a \in {PosInf, NegInf} \/ b \in {PosInf, NegInf} THEN PosInf
  ELSE IF a >= b THEN a - b ELSE b - a

IsFinite(x) == x \notin {NaN, PosInf, NegInf}

\* A number of pixels in tenths of a pixel.
Tenths(x) == IF IsFinite(x) THEN 10 * x ELSE x

MAX_POOL_SIZE == 100
FLY_AWAY_ANGULAR_VELOCITY == 9425
TAKEOFF_TILT == -100

GameStates == {"IDLE", "BETTING", "FLYING", "CRASHED"}

\* Live explosion particles followed; the frame loop, which ages them out, is
\* not part of this model.
MaxExplosionParticles == 100

\* Curve points followed in one flight.
MaxCurvePoints == 2

\* The container sizes of the runs explored: a desktop and a phone layout.
Layouts ==
  { [width |-> 1024, height |-> 768, isMobile |-> FALSE],
    [width |-> 400, height |-> 600, isMobile |-> TRUE] }

\* The numbers updateState is called with.
MultiplierInputs == {NaN, PosInf, NegInf, 50, 100, 150}
ElapsedInputs == {NaN, PosInf, NegInf, -1000, 0, 1000}

PADDING_LEFT(sc) == IF sc.isMobile THEN 40 ELSE 60
PADDING_BOTTOM(sc) == IF sc.isMobile THEN 40 ELSE 60

\* The scene's fields as one value.
Scn ==
  [ plane |-> plane, width |-> width, height |-> height, isMobile |-> isMobile,
    currentState |-> currentState, currentMultiplier |-> currentMultiplier,
    elapsedSeconds |-> elapsedSeconds, curvePoints |-> curvePoints,
    trailPoints |-> trailPoints, exhaustParticles |-> exhaustParticles,
    explosionParticles |-> explosionParticles, particleAges |-> particleAges,
    particlePool |-> particlePool,
    explosionParticlePool |-> explosionParticlePool, planeScale |-> planeScale,
    planeRotationTarget |-> planeRotationTarget,
    planeRotationCurrent |-> planeRotationCurrent, flightTime |-> flightTime,
    flyAwayPhysics |-> flyAwayPhysics, flyAwayStart |-> flyAwayStart,
    crashFlashAlpha |-> crashFlashAlpha, maxTimeWindow |-> maxTimeWindow,
    maxMultWindow |-> maxMultWindow, scaleX |-> scaleX, scaleY |-> scaleY ]

SetScn(sc) ==
  /\ plane' = sc.plane
  /\ width' = sc.width
  /\ height' = sc.height
  /\ isMobile' = sc.isMobile
  /\ currentState' = sc.currentState
  /\ currentMultiplier' = sc.currentMultiplier
  /\ elapsedSeconds' = sc.elapsedSeconds
  /\ curvePoints' = sc.curvePoints
  /\ trailPoints' = sc.trailPoints
  /\ exhaustParticles' = sc.exhaustParticles
  /\ explosionParticles' = sc.explosionParticles
  /\ particleAges' = sc.particleAges
  /\ particlePool' = sc.particlePool
  /\ explosionParticlePool' = sc.explosionParticlePool
  /\ planeScale' = sc.planeScale
  /\ planeRotationTarget' = sc.planeRotationTarget
  /\ planeRotationCurrent' = sc.planeRotationCurrent
  /\ flightTime' = sc.flightTime
  /\ flyAwayPhysics' = sc.flyAwayPhysics
  /\ flyAwayStart' = sc.flyAwayStart
  /\ crashFlashAlpha' = sc.crashFlashAlpha
  /\ maxTimeWindow' = sc.maxTimeWindow
  /\ maxMultWindow' = sc.maxMultWindow
  /\ scaleX' = sc.scaleX
  /\ scaleY' = sc.scaleY

\* The fields after the constructor, in a container of the given layout.
SceneFields(layout) ==
  [ plane |-> [visible |-> TRUE, alpha |-> 1000, x |-> 0, y |-> 0, rotation |-> 0],
    width |-> layout.width, height |-> layout.height, isMobile |-> layout.isMobile,
    currentState |-> "IDLE", currentMultiplier |-> 100, elapsedSeconds |-> 0,
    curvePoints |-> << >>, trailPoints |-> << >>,
    exhaustParticles |-> 0, explosionParticles |-> 0,
    particleAges |-> [exhaust |-> << >>, explosion |-> << >>],
    particlePool |-> MAX_POOL_SIZE, explosionParticlePool |-> MAX_POOL_SIZE,
    planeScale |-> 1000, planeRotationTarget |-> TAKEOFF_TILT,
    planeRotationCurrent |-> TAKEOFF_TILT, flightTime |-> 0,
    flyAwayPhysics |-> [x |-> 0, y |-> 0, vx |-> 0, vy |-> 0, rotation |-> 0,
                        angularVelocity |-> 0, scale |-> 1000, alpha |-> 1000,
                        active |-> FALSE],
    flyAwayStart |-> [x |-> 0, y |-> 0], crashFlashAlpha |-> 0,
    maxTimeWindow |-> 10000, maxMultWindow |-> 200, scaleX |-> 100, scaleY |-> 100 ]

\* recycleParticle / recycleExplosionParticle called for n particles.
Recycle(pool, n) == Min(MAX_POOL_SIZE, pool + n)

\* getParticle / getExplosionParticle called n times.
Acquire(pool, n) == Max(0, pool - n)

\* x / 0.8 on milliseconds or hundredths, and x > w * 0.8.
Over80(x, w) ==
  IF x \in {NaN, NegInf} \/ w = PosInf THEN FALSE
  ELSE IF x = PosInf THEN TRUE
  ELSE x * 10 > w * 8

Div08(x) == IF x = PosInf THEN PosInf ELSE (x * 10) \div 8

JsMax(a, b) == IF a = PosInf \/ b = PosInf THEN PosInf ELSE Max(a, b)

UpdateViewport(sc) ==
  LET timeWindow ==
        IF Over80(sc.elapsedSeconds, sc.maxTimeWindow)
          THEN JsMax(Div08(sc.elapsedSeconds), 10000)
          ELSE sc.maxTimeWindow
      multWindow ==
        IF Over80(sc.currentMultiplier, sc.maxMultWindow)
          THEN JsMax(Div08(sc.currentMultiplier), 200)
          ELSE sc.maxMultWindow
      availWidth == Max(sc.width - PADDING_LEFT(sc), 100)
      availHeight == Max(sc.height - PADDING_BOTTOM(sc), 100)
  IN [sc EXCEPT
        !.maxTimeWindow = timeWindow,
        !.maxMultWindow = multWindow,
        !.scaleX = IF timeWindow = PosInf THEN 0
                   ELSE (availWidth * 100000) \div Max(timeWindow, 100),
        !.scaleY = IF multWindow = PosInf THEN 0
                   ELSE (availHeight * 10000) \div Max(multWindow - 100, 10)]

\* drawCurve(): besides drawing, it seeds an empty curve.
DrawCurve(sc) ==
  IF Len(sc.curvePoints) = 0
    THEN [sc EXCEPT !.curvePoints = << [t |-> 0, m |-> 100] >>]
    ELSE sc

\* ResetScene leaving the plane and the windows as they are.
ResetScene_KeepView(sc, hasPlane, hasSprite) ==
  DrawCurve(UpdateViewport(
    [sc EXCEPT
       !.curvePoints = << [t |-> 0, m |-> 100] >>,
       !.trailPoints = << >>,
       !.particlePool = Recycle(sc.particlePool, sc.exhaustParticles),
       !.explosionParticlePool =
           Recycle(sc.explosionParticlePool, sc.explosionParticles),
       !.exhaustParticles = 0,
       !.explosionParticles = 0,
       !.particleAges = [exhaust |-> << >>, explosion |-> << >>],
       !.planeScale = 1000,
       !.planeRotationTarget = TAKEOFF_TILT,
       !.planeRotationCurrent = TAKEOFF_TILT,
       !.flightTime = 0,
       !.flyAwayPhysics.active = FALSE,
       !.crashFlashAlpha = 0,
       !.currentMultiplier = 100,
       !.elapsedSeconds = 0]))

\* resetScene(), the scene holding a plane display object or not, a Sprite or not.
ResetScene(sc, hasPlane, hasSprite) ==
  DrawCurve(UpdateViewport(
    [sc EXCEPT
       !.curvePoints = << [t |-> 0, m |-> 100] >>,
       !.trailPoints = << >>,
       !.particlePool = Recycle(sc.particlePool, sc.exhaustParticles),
       !.explosionParticlePool =
           Recycle(sc.explosionParticlePool, sc.explosionParticles),
       !.exhaustParticles = 0,
       !.explosionParticles = 0,
       !.particleAges = [exhaust |-> << >>, explosion |-> << >>],
       !.plane = IF hasPlane
                   THEN [visible |-> TRUE, alpha |-> 1000,
                         x |-> PADDING_LEFT(sc),
                         y |-> sc.height - PADDING_BOTTOM(sc),
                         rotation |-> IF hasSprite THEN TAKEOFF_TILT
                                      ELSE sc.plane.rotation]
                   ELSE sc.plane,
       !.planeScale = 1000,
       !.planeRotationTarget = TAKEOFF_TILT,
       !.planeRotationCurrent = TAKEOFF_TILT,
       !.flightTime = 0,
       !.flyAwayPhysics.active = FALSE,
       !.crashFlashAlpha = 0,
       !.maxTimeWindow = 10000,
       !.maxMultWindow = 200,
       !.currentMultiplier = 100,
       !.elapsedSeconds = 0]))

\* n particles that begin their life now, added to the batches of a live list.
AddBatch(batches, n) ==
  IF batches # << >> /\ batches[Len(batches)].age = 0
    THEN [batches EXCEPT ![Len(batches)].n = @ + n]
    ELSE Append(batches, [n |-> n, age |-> 0])

\* createExplosion(x, y)
CreateExplosion(sc) ==
  LET particleCount == IF sc.isMobile THEN 30 ELSE 50
  IN [sc EXCEPT
        !.explosionParticlePool = Acquire(sc.explosionParticlePool, particleCount),
        !.explosionParticles = sc.explosionParticles + particleCount,
        !.particleAges.explosion = AddBatch(sc.particleAges.explosion, particleCount)]

\* updateState's branch for a change of phase to CRASHED.
StartFlyAway(sc, hasPlane) ==
  IF ~hasPlane THEN sc
  ELSE LET started ==
             [sc EXCEPT
                !.flyAwayPhysics =
                   [x |-> Tenths(sc.plane.x), y |-> Tenths(sc.plane.y), vx |-> 0, vy |-> 0,
                    rotation |-> sc.planeRotationCurrent,
                    angularVelocity |-> FLY_AWAY_ANGULAR_VELOCITY,
                    scale |-> 1000, alpha |-> 1000, active |-> TRUE],
                !.flyAwayStart = [x |-> Tenths(sc.plane.x), y |-> Tenths(sc.plane.y)]]
           exploded == CreateExplosion(started)
       IN [exploded EXCEPT
             !.crashFlashAlpha = 1000,
             !.particlePool = Recycle(exploded.particlePool, exploded.exhaustParticles),
             !.exhaustParticles = 0,
             !.particleAges.exhaust = << >>]

\* A recording that keeps every point of the flight, near the last one or not.
RecordPoint_EveryPoint(sc, hasPlane, multiplier, elapsed) ==
  LET shown == IF hasPlane
                 THEN [sc EXCEPT !.plane.visible = TRUE, !.plane.alpha = 1000]
                 ELSE sc
  IN [shown EXCEPT !.curvePoints =
        Append(sc.curvePoints, [t |-> elapsed, m |-> multiplier])]

\* updateState's FLYING part: show the plane, record the point if it is new
\* or further than the threshold from the last one.
RecordPoint(sc, hasPlane, multiplier, elapsed) ==
  LET shown == IF hasPlane
                 THEN [sc EXCEPT !.plane.visible = TRUE, !.plane.alpha = 1000]
                 ELSE sc
      n == Len(sc.curvePoints)
      tThreshold == IF sc.isMobile THEN 80 ELSE 50
      mThreshold == IF sc.isMobile THEN 8 ELSE 5
  IN IF \/ n = 0
        \/ JsGt(JsAbsDiff(elapsed, sc.curvePoints[n].t), tThreshold)
        \/ JsGt(JsAbsDiff(multiplier, sc.curvePoints[n].m), mThreshold)
       THEN [shown EXCEPT !.curvePoints =
                Append(sc.curvePoints, [t |-> elapsed, m |-> multiplier])]
       ELSE shown

\* updateState's input validation: the call is dropped.
Rejected(multiplier, elapsed) ==
  \/ JsLt(multiplier, 100) \/ multiplier = NaN
  \/ JsLt(elapsed, 0) \/ elapsed = NaN

\* updateState(st, multiplier, elapsedSeconds) on the fields sc.
UpdateStateBody(sc, initialized, destroyed, hasPlane, hasSprite, st, multiplier, elapsed) ==
  IF ~initialized \/ destroyed THEN sc
  ELSE IF Rejected(multiplier, elapsed) THEN sc
  ELSE LET taken == [sc EXCEPT !.currentMultiplier = multiplier,
                               !.elapsedSeconds = elapsed]
           moved ==
             IF st # taken.currentState
               THEN [ (IF st = "BETTING" THEN ResetScene(taken, hasPlane, hasSprite)
                       ELSE IF st = "CRASHED" THEN StartFlyAway(taken, hasPlane)
                       ELSE taken)
                      EXCEPT !.currentState = st ]
               ELSE taken
       IN IF st = "FLYING"
            THEN RecordPoint(moved, hasPlane, multiplier, elapsed)
            ELSE moved


\* The plane's place on the curve, as resize() computes it during a flight:
\* origin + elapsedSeconds * scaleX and origin - (currentMultiplier - 1) * scaleY.
FlightX(sc) ==
  IF sc.elapsedSeconds = PosInf
    THEN IF sc.scaleX = 0 THEN NaN ELSE PosInf
    ELSE PADDING_LEFT(sc) + (sc.elapsedSeconds * sc.scaleX) \div 100000

FlightY(sc) ==
  IF sc.currentMultiplier = PosInf
    THEN IF sc.scaleY = 0 THEN NaN ELSE NegInf
    ELSE (sc.height - PADDING_BOTTOM(sc))
           - ((sc.currentMultiplier - 100) * sc.scaleY) \div 10000

\* The sizes resize() is called with, and window.innerWidth at the time.
ResizeInputs ==
  { [width |-> 320, height |-> 480, innerWidth |-> 375],
    [width |-> 1024, height |-> 200, innerWidth |-> 1440] }

\* resize(w, h) on the fields sc.
ResizeBody(sc, initialized, destroyed, hasApp, hasPlane, hasSprite, w, h, innerWidth) ==
  LET sized == [sc EXCEPT !.width = Max(w, 400),
                          !.height = Max(h, 300),
                          !.isMobile = (Max(w, 400) < 768 \/ innerWidth < 768)]
  IN IF ~initialized \/ ~hasApp \/ destroyed THEN sized
     ELSE IF sized.currentState \in {"IDLE", "BETTING"}
       THEN ResetScene(sized, hasPlane, hasSprite)
     ELSE IF sized.currentState = "FLYING"
       THEN LET scaled == UpdateViewport(sized)
            IN DrawCurve(IF hasPlane
                           THEN [scaled EXCEPT !.plane.x = FlightX(scaled),
                                               !.plane.y = FlightY(scaled)]
                           ELSE scaled)
     ELSE sized
----------------------------------------------------------------------------
(* ParticleSystem (src/game/systems/ParticleSystem.ts): the two free lists *)
(* with the particle objects told apart.  An object is the number of its   *)
(* allocation; the callers are the effects, which hold references to the   *)
(* particles they took and may keep one after recycling it.                *)

\* References a caller holds at a time.
MaxHeld == 2

\* References kept after the particle was recycled, and calls of the
\* ParticleSystem methods, in one run.
MaxKept == 1
MaxPoolCalls == 7

\* recycleParticle / recycleExplosionParticle without the size test.
PoolRecycle_Unbounded(pool, particle) == Append(pool, particle)

\* recycleParticle(particle) / recycleExplosionParticle(particle) on a free list.
PoolRecycle(pool, particle) ==
  IF Len(pool) < MAX_POOL_SIZE THEN Append(pool, particle) ELSE pool

\* getParticle() / getExplosionParticle() on a free list: the list left and
\* the object returned, fresh being the object a `{ x: 0, ... }` literal makes.
PoolGet(pool, fresh) ==
  IF Len(pool) > 0
    THEN [pool |-> SubSeq(pool, 1, Len(pool) - 1), particle |-> pool[Len(pool)]]
    ELSE [pool |-> pool, particle |-> fresh]

\* initPools(): MAX_POOL_SIZE objects pushed on each list.
InitPool == [i \in 1..MAX_POOL_SIZE |-> i]

PsGetParticle ==
  LET got == PoolGet(psParticlePool, psAllocated.particle + 1)
  IN /\ psCalls < MaxPoolCalls
     /\ psCalls' = psCalls + 1
     /\ Cardinality(psHeld.particle) < psCap.particle
     /\ psParticlePool' = got.pool
     /\ psAllocated' = IF Len(psParticlePool) = 0
                         THEN [psAllocated EXCEPT !.particle = @ + 1]
                         ELSE psAllocated
     /\ psHeld' = [psHeld EXCEPT !.particle = @ \cup {got.particle}]
     /\ UNCHANGED <<psExplosionParticlePool, psCap, effectVars, viewport, flyAwayVars, engineVars, sceneVars, lifeVars>>

\* recycleParticle(particle), the caller dropping its reference or keeping it.
PsRecycleParticle(particle, kept) ==
  /\ particle \in psHeld.particle
  /\ psCalls < MaxPoolCalls
  /\ psCalls' = psCalls + 1
  /\ psParticlePool' = PoolRecycle(psParticlePool, particle)
  /\ kept => Cardinality(psHeld.kept \cup {particle}) <= MaxKept
  /\ psHeld' = IF kept THEN [psHeld EXCEPT !.kept = @ \cup {particle}]
               ELSE [psHeld EXCEPT !.particle = @ \ {particle}]
  /\ UNCHANGED <<psExplosionParticlePool, psAllocated, psCap, effectVars, viewport, flyAwayVars, engineVars, sceneVars, lifeVars>>

PsGetExplosionParticle ==
  LET got == PoolGet(psExplosionParticlePool, psAllocated.explosion + 1)
  IN /\ psCalls < MaxPoolCalls
     /\ psCalls' = psCalls + 1
     /\ Cardinality(psHeld.explosion) < psCap.explosion
     /\ psExplosionParticlePool' = got.pool
     /\ psAllocated' = IF Len(psExplosionParticlePool) = 0
                         THEN [psAllocated EXCEPT !.explosion = @ + 1]
                         ELSE psAllocated
     /\ psHeld' = [psHeld EXCEPT !.explosion = @ \cup {got.particle}]
     /\ UNCHANGED <<psParticlePool, psCap, effectVars, viewport, flyAwayVars, engineVars, sceneVars, lifeVars>>

\* recycleExplosionParticle(particle), the caller dropping its reference or keeping it.
PsRecycleExplosionParticle(particle, kept) ==
  /\ particle \in psHeld.explosion
  /\ psCalls < MaxPoolCalls
  /\ psCalls' = psCalls + 1
  /\ psExplosionParticlePool' = PoolRecycle(psExplosionParticlePool, particle)
  /\ kept => Cardinality(psHeld.kept \cup {particle}) <= MaxKept
  /\ psHeld' = IF kept THEN [psHeld EXCEPT !.kept = @ \cup {particle}]
               ELSE [psHeld EXCEPT !.explosion = @ \ {particle}]
  /\ UNCHANGED <<psParticlePool, psAllocated, psCap, effectVars, viewport, flyAwayVars, engineVars, sceneVars, lifeVars>>

\* A caller lets go of a particle without recycling it.
PsForget(kind, particle) ==
  /\ particle \in psHeld[kind]
  /\ psHeld' = [psHeld EXCEPT ![kind] = @ \ {particle}]
  /\ UNCHANGED <<psCalls, psParticlePool, psExplosionParticlePool, psAllocated, psCap, effectVars, viewport,
                 flyAwayVars, engineVars, sceneVars, lifeVars>>

----------------------------------------------------------------------------
(* ExhaustEffect and ExplosionEffect (src/game/effects) on one              *)
(* ParticleSystem.  A live particle is [id, life]: the object and its life  *)
(* in ms.  Positions, velocities, sizes and colours decide nothing about    *)
(* the lists and are left out; a drawn life is lo + Math.random() * span    *)
(* with the draw in thousandths.                                            *)

MOBILE_MAX_PARTICLES == 20
DESKTOP_MAX_PARTICLES == 40
MOBILE_EXPLOSION_PARTICLES == 30
DESKTOP_EXPLOSION_PARTICLES == 50

\* `this.elapsedTime > 0.1`, in ms.
SECONDARY_DELAY == 100

\* Calls of the effects' methods in one run.
MaxFxCalls == 4

\* lo + Math.random() * span
DrawnLife(lo, span, r) == lo + (span * r) \div 1000

ParticleIds(particles) == {particles[i].id : i \in DOMAIN particles}

\* One getParticle() / getExplosionParticle() and one push on the live list
\* for every life of lives, in order: the i-th get pops the i-th object from
\* the end of the free list, and makes a new object once the list is empty.
Spawn(pool, allocated, particles, lives) ==
  LET n == Len(lives)
      k == Len(pool)
      popped == Min(n, k)
  IN [pool |-> SubSeq(pool, 1, k - popped),
      allocated |-> allocated + (n - popped),
      particles |-> particles \o
        [i \in 1..n |-> [id |-> IF i <= k THEN pool[k - i + 1] ELSE allocated + (i - k),
                         life |-> lives[i]]]]

\* forEach(p => recycle(p)) over the given objects: each is pushed while the
\* free list is below MAX_POOL_SIZE.
RecycleEach(pool, ids) ==
  LET room == Max(MAX_POOL_SIZE - Len(pool), 0)
  IN pool \o SubSeq(ids, 1, Min(room, Len(ids)))

IdsOf(particles) == [i \in DOMAIN particles |-> particles[i].id]

\* The loop of update() with the expired particles left in the live list too.
Cull_KeepExpired(particles, dt) ==
  LET aged == [i \in DOMAIN particles |-> [particles[i] EXCEPT !.life = @ - dt]]
  IN [alive |-> aged,
      expired |-> IdsOf(SelectSeq(aged, LAMBDA p : ~(p.life > 0)))]

\* The loop of update(): life -= deltaTime, then the particle goes to
\* aliveParticles if life > 0 and to the pool otherwise.
Cull(particles, dt) ==
  LET aged == [i \in DOMAIN particles |-> [particles[i] EXCEPT !.life = @ - dt]]
  IN [alive |-> SelectSeq(aged, LAMBDA p : p.life > 0),
      expired |-> IdsOf(SelectSeq(aged, LAMBDA p : ~(p.life > 0)))]

\* The fields of a constructed ExhaustEffect / ExplosionEffect.
ExhaustFields(mobile) == [isMobile |-> mobile, particles |-> << >>]

ExplosionFields(mobile) ==
  [isMobile |-> mobile, particles |-> << >>, elapsedTime |-> 0, stage2Emitted |-> FALSE]

\* What the last call did, and since the last create(): the secondary bursts
\* and the deltaTime handed to update().
FxLogStart ==
  [op |-> "new", recycled |-> << >>, calls |-> 0, created |-> FALSE,
   burst |-> FALSE, bursts |-> 0, updated |-> 0]

Logged(op, recycled) ==
  [fxLog EXCEPT !.op = op, !.recycled = recycled, !.calls = @ + 1, !.burst = FALSE]

\* ExhaustEffect.emit(x, y, rotation, deltaTime), rs the draws of the lives.
ExhaustEmitBody(fx, pool, allocated, rs) ==
  LET lives == [i \in DOMAIN rs |-> DrawnLife(300, 400, rs[i])]
      got == Spawn(pool, allocated, fx.particles, lives)
      maxParticles == IF fx.isMobile THEN MOBILE_MAX_PARTICLES ELSE DESKTOP_MAX_PARTICLES
      over == Len(got.particles) - maxParticles
      toRecycle == IF over > 0 THEN IdsOf(SubSeq(got.particles, 1, over)) ELSE << >>
      left == IF over > 0 THEN SubSeq(got.particles, over + 1, Len(got.particles))
              ELSE got.particles
  IN [fx |-> [fx EXCEPT !.particles = left],
      pool |-> RecycleEach(got.pool, toRecycle),
      allocated |-> got.allocated,
      recycled |-> toRecycle]

\* The draws of one emit(): one particle a frame on mobile, two on desktop.
ExhaustDraws(mobile) ==
  IF mobile THEN {<<0>>, <<999>>} ELSE {<<0, 999>>, <<999, 999>>}

ExhaustEmit(rs) ==
  LET r == ExhaustEmitBody(exhaustEffect, psParticlePool, psAllocated.particle, rs)
  IN /\ fxLog.calls < MaxFxCalls
     /\ rs \in ExhaustDraws(exhaustEffect.isMobile)
     /\ exhaustEffect' = r.fx
     /\ psParticlePool' = r.pool
     /\ psAllocated' = [psAllocated EXCEPT !.particle = r.allocated]
     /\ fxLog' = Logged("exhaustEmit", r.recycled)
     /\ UNCHANGED <<explosionEffect, psExplosionParticlePool, psHeld, psCalls, psCap,
                    viewport, flyAwayVars, engineVars, sceneVars, lifeVars>>

\* ExhaustEffect.update(deltaTime)
ExhaustUpdate(dt) ==
  LET c == Cull(exhaustEffect.particles, dt)
  IN /\ fxLog.calls < MaxFxCalls
     /\ exhaustEffect' = [exhaustEffect EXCEPT !.particles = c.alive]
     /\ psParticlePool' = RecycleEach(psParticlePool, c.expired)
     /\ fxLog' = Logged("exhaustUpdate", c.expired)
     /\ UNCHANGED <<explosionEffect, psExplosionParticlePool, psAllocated, psHeld, psCalls,
                    psCap, viewport, flyAwayVars, engineVars, sceneVars, lifeVars>>

\* ExhaustEffect.clear()
ExhaustClear ==
  /\ fxLog.calls < MaxFxCalls
  /\ exhaustEffect' = [exhaustEffect EXCEPT !.particles = << >>]
  /\ psParticlePool' = RecycleEach(psParticlePool, IdsOf(exhaustEffect.particles))
  /\ fxLog' = Logged("exhaustClear", IdsOf(exhaustEffect.particles))
  /\ UNCHANGED <<explosionEffect, psExplosionParticlePool, psAllocated, psHeld, psCalls,
                 psCap, viewport, flyAwayVars, engineVars, sceneVars, lifeVars>>

Repeat(n, life) == [i \in 1..n |-> life]

\* ExplosionEffect.create(x, y): the core, the sparks and the debris, r the
\* draw of the lives.
ExplosionCreate(r) ==
  LET particleCount == IF explosionEffect.isMobile THEN MOBILE_EXPLOSION_PARTICLES
                       ELSE DESKTOP_EXPLOSION_PARTICLES
      coreCount == (particleCount * 4) \div 10
      sparkCount == (particleCount * 3) \div 10
      debrisCount == (particleCount * 3) \div 10
      got == Spawn(psExplosionParticlePool, psAllocated.explosion,
                   explosionEffect.particles,
                   Repeat(coreCount, DrawnLife(600, 400, r))
                     \o Repeat(sparkCount, DrawnLife(400, 300, r))
                     \o Repeat(debrisCount, DrawnLife(800, 600, r)))
  IN /\ fxLog.calls < MaxFxCalls
     /\ explosionEffect' = [explosionEffect EXCEPT !.elapsedTime = 0,
                                                   !.stage2Emitted = FALSE,
                                                   !.particles = got.particles]
     /\ psExplosionParticlePool' = got.pool
     /\ psAllocated' = [psAllocated EXCEPT !.explosion = got.allocated]
     /\ fxLog' = [Logged("explosionCreate", << >>) EXCEPT
                    !.created = TRUE, !.bursts = 0, !.updated = 0]
     /\ UNCHANGED <<exhaustEffect, psParticlePool, psHeld, psCalls, psCap,
                    viewport, flyAwayVars, engineVars, sceneVars, lifeVars>>

\* emitSecondary(x, y) with stage2Emitted false: the lives of the burst.
SecondaryLives(mobile, r) ==
  Repeat(IF mobile THEN 15 ELSE 25, DrawnLife(500, 400, r))

\* ExplosionEffect.update(deltaTime, explosionX?, explosionY?), at saying
\* whether the two coordinates are given and r the draw of the burst's lives.
ExplosionUpdate(dt, at, r) ==
  LET elapsed == explosionEffect.elapsedTime + dt
      emits == ~explosionEffect.stage2Emitted /\ elapsed > SECONDARY_DELAY /\ at
      got == Spawn(psExplosionParticlePool, psAllocated.explosion,
                   explosionEffect.particles,
                   IF emits THEN SecondaryLives(explosionEffect.isMobile, r) ELSE << >>)
      c == Cull(got.particles, dt)
  IN /\ fxLog.calls < MaxFxCalls
     /\ explosionEffect' = [explosionEffect EXCEPT
                              !.elapsedTime = elapsed,
                              !.stage2Emitted = @ \/ emits,
                              !.particles = c.alive]
     /\ psExplosionParticlePool' = RecycleEach(got.pool, c.expired)
     /\ psAllocated' = [psAllocated EXCEPT !.explosion = got.allocated]
     /\ fxLog' = [Logged("explosionUpdate", c.expired) EXCEPT
                    !.burst = emits,
                    !.bursts = IF emits THEN @ + 1 ELSE @,
                    !.updated = @ + dt]
     /\ UNCHANGED <<exhaustEffect, psParticlePool, psHeld, psCalls, psCap,
                    viewport, flyAwayVars, engineVars, sceneVars, lifeVars>>

\* ExplosionEffect.clear()
ExplosionClear ==
  /\ fxLog.calls < MaxFxCalls
  /\ explosionEffect' = [explosionEffect EXCEPT !.particles = << >>,
                                                !.elapsedTime = 0,
                                                !.stage2Emitted = FALSE]
  /\ psExplosionParticlePool' =
       RecycleEach(psExplosionParticlePool, IdsOf(explosionEffect.particles))
  /\ fxLog' = Logged("explosionClear", IdsOf(explosionEffect.particles))
  /\ UNCHANGED <<exhaustEffect, psParticlePool, psAllocated, psHeld, psCalls, psCap,
                 viewport, flyAwayVars, engineVars, sceneVars, lifeVars>>

\* No effect constructed on the ParticleSystem.
EffectsIdle ==
  /\ exhaustEffect = ExhaustFields(FALSE)
  /\ explosionEffect = ExplosionFields(FALSE)
  /\ fxLog = FxLogStart

\* The exhaust after n emit() calls in a row on a new ParticleSystem, every
\* life drawn at the top of its range.
RECURSIVE ExhaustAfterEmits(_, _)
ExhaustAfterEmits(mobile, n) ==
  IF n = 0
    THEN [fx |-> ExhaustFields(mobile), pool |-> InitPool,
          allocated |-> MAX_POOL_SIZE, recycled |-> << >>]
    ELSE LET before == ExhaustAfterEmits(mobile, n - 1)
         IN ExhaustEmitBody(before.fx, before.pool, before.allocated,
                            IF mobile THEN <<999>> ELSE <<999, 999>>)

\* new ParticleSystem() and the two effects constructed on it for one
\* layout, the exhaust having emitted for the given number of frames.
EffectsStart(mobile, frames) ==
  LET warm == ExhaustAfterEmits(mobile, frames)
  IN /\ psParticlePool = warm.pool
     /\ psExplosionParticlePool = InitPool
     /\ psAllocated = [particle |-> warm.allocated, explosion |-> MAX_POOL_SIZE]
     /\ psHeld = [particle |-> {}, explosion |-> {}, kept |-> {}]
     /\ psCap = [particle |-> 0, explosion |-> 0]
     /\ psCalls = 0
     /\ exhaustEffect = warm.fx
     /\ explosionEffect = ExplosionFields(mobile)
     /\ fxLog = FxLogStart

\* new ParticleSystem(), its callers holding up to the given numbers of references.
PoolsStart(particles, explosions) ==
  /\ psParticlePool = InitPool
  /\ psExplosionParticlePool = InitPool
  /\ psAllocated = [particle |-> MAX_POOL_SIZE, explosion |-> MAX_POOL_SIZE]
  /\ psHeld = [particle |-> {}, explosion |-> {}, kept |-> {}]
  /\ psCap = [particle |-> particles, explosion |-> explosions]
  /\ psCalls = 0
  /\ EffectsIdle

----------------------------------------------------------------------------
(* FlyAwayAnimation (src/game/animation/FlyAwayAnimation.ts) with the      *)
(* PhysicsSystem calls it makes.  Positions are in tenths of a pixel,      *)
(* velocities in tenths of a pixel per second, deltaTime in milliseconds,  *)
(* rotation, angular velocity, scale and alpha in thousandths.  A run has  *)
(* one frame interval.                                                     *)

\* PHYSICS.FLY_AWAY_ANGULAR_VELOCITY = Math.PI * 4
PHYSICS_FLY_AWAY_ANGULAR_VELOCITY == 12566

\* Math.cos(Math.PI / 4) * PHYSICS.FLY_AWAY_THRUST, in tenths of a pixel per s^2.
PHYSICS_FLY_AWAY_THRUST_AXIS == 8485

\* The frame intervals of a run: 30 and 10 frames per second.
FrameIntervals == {33, 100}

\* starts of the animation followed in one run
MaxStarts == 2

\* v * a / b rounded towards zero.
MulDiv(v, a, b) == IF v >= 0 THEN (v * a) \div b ELSE -(((-v) * a) \div b)

RECURSIVE SqrtBetween(_, _, _)
SqrtBetween(n, lo, hi) ==
  IF lo >= hi THEN lo
  ELSE LET mid == (lo + hi + 1) \div 2
       IN IF mid * mid <= n THEN SqrtBetween(n, mid, hi)
          ELSE SqrtBetween(n, lo, mid - 1)

\* Math.sqrt on integers.
Sqrt(n) == SqrtBetween(n, 0, 46340)

\* distance(x1, y1, x2, y2) of MathUtils; NaN as soon as a coordinate is not
\* finite (the start is the position the animation began at).
Distance(x1, y1, x2, y2) ==
  IF IsFinite(x1) /\ IsFinite(y1) /\ IsFinite(x2) /\ IsFinite(y2)
    THEN Sqrt((x2 - x1) * (x2 - x1) + (y2 - y1) * (y2 - y1))
    ELSE NaN

\* x + d, x being any number and d finite.
Moved(x, d) == IF IsFinite(x) THEN x + d ELSE x

\* v * Math.pow(0.98, deltaTime): 0.98^t = 1 - 0.020203 t up to 10^-7 for a frame.
AirResistance(v, dt) == v - MulDiv(v, (20203 * dt) \div 1000, 1000000)

\* The physics after the constructor.
FlyAwayFields ==
  [ x |-> 0, y |-> 0, vx |-> 0, vy |-> 0, rotation |-> 0, angularVelocity |-> 0,
    scale |-> 1000, alpha |-> 1000, active |-> FALSE ]

\* start(x, y, rotation): the physics it leaves.
FlyAwayStart(p, x, y, rotation) ==
  [ x |-> x, y |-> y, vx |-> 0, vy |-> 0, rotation |-> rotation,
    angularVelocity |-> PHYSICS_FLY_AWAY_ANGULAR_VELOCITY,
    scale |-> 1000, alpha |-> 1000, active |-> TRUE ]

\* update(dimensions, deltaTime) from the thrust on: the physics of an active
\* animation started at start, one frame later.
FlyAwayStep(p, start, dimensions, dt) ==
  LET vx == AirResistance(p.vx + MulDiv(PHYSICS_FLY_AWAY_THRUST_AXIS, dt, 1000), dt)
      vy == AirResistance(p.vy - MulDiv(PHYSICS_FLY_AWAY_THRUST_AXIS, dt, 1000), dt)
      x == Moved(p.x, MulDiv(vx, dt, 1000))
      y == Moved(p.y, MulDiv(vy, dt, 1000))
      angularVelocity == MulDiv(p.angularVelocity, 98, 100)
      distanceTraveled == Distance(x, y, start.x, start.y)
      maxDistance == Max(dimensions.width, dimensions.height) * 15
      progress == IF distanceTraveled = NaN THEN NaN
                  ELSE Min((distanceTraveled * 10000) \div (maxDistance * 6), 1000)
      alpha == IF distanceTraveled = NaN THEN NaN
               ELSE Max(0, 1000 - (distanceTraveled * 1000) \div maxDistance)
  IN [ x |-> x, y |-> y, vx |-> vx, vy |-> vy,
       rotation |-> p.rotation + MulDiv(angularVelocity, dt, 1000),
       angularVelocity |-> angularVelocity,
       scale |-> IF progress = NaN THEN NaN ELSE 1000 + (progress * 6) \div 10,
       alpha |-> alpha,
       active |-> ~ \/ JsLt(alpha, 1)
                    \/ JsGt(x, (dimensions.width + 200) * 10)
                    \/ JsLt(y, -2000)
                    \/ JsLt(x, -2000) ]

\* update() without the test of active.
FlyAwayUpdate_Resumable(p, start, dimensions, dt) == FlyAwayStep(p, start, dimensions, dt)

\* update(dimensions, deltaTime) on the physics p of an animation started at start.
FlyAwayUpdate(p, start, dimensions, dt) ==
  IF ~p.active THEN p ELSE FlyAwayStep(p, start, dimensions, dt)

\* reset()
FlyAwayReset(p) == [p EXCEPT !.active = FALSE, !.alpha = 1000]

\* The positions and the dimensions the animation is called with.
FlyAwayXs == {NaN, PosInf, 8000}
FlyAwayYs == {NaN, 1500}
FlyAwayDimensions ==
  { [width |-> 1024, height |-> 768, paddingLeft |-> 60, paddingBottom |-> 60],
    [width |-> 400, height |-> 600, paddingLeft |-> 40, paddingBottom |-> 40] }

FaStart(x, y, rotation) ==
  /\ faStarts < faCap
  /\ faStarts' = faStarts + 1
  /\ faPhysics' = FlyAwayStart(faPhysics, x, y, rotation)
  /\ faStartXY' = [x |-> x, y |-> y]
  /\ UNCHANGED <<frameMs, faCap, viewport, poolVars, engineVars, sceneVars, lifeVars>>

FaUpdate(dimensions) ==
  /\ faPhysics' = FlyAwayUpdate(faPhysics, faStartXY, dimensions, frameMs)
  /\ UNCHANGED <<faStartXY, faStarts, frameMs, faCap, viewport, poolVars, engineVars,
                 sceneVars, lifeVars>>

FaReset ==
  /\ faPhysics' = FlyAwayReset(faPhysics)
  /\ UNCHANGED <<faStartXY, faStarts, frameMs, faCap, viewport, poolVars, engineVars,
                 sceneVars, lifeVars>>

\* new FlyAwayAnimation(physicsSystem), in a run of the given frame interval
\* that follows the given number of starts.
FlyAwayBegin(dt, starts) ==
  /\ faPhysics = FlyAwayFields
  /\ faStartXY = [x |-> 0, y |-> 0]
  /\ faStarts = 0
  /\ faCap = starts
  /\ frameMs = dt

----------------------------------------------------------------------------
(* AviatorScene's ticker (src/game/AviatorScene.ts 425-830): one frame.     *)
(* deltaTime is in milliseconds.  The numbers of a frame are finite: the    *)
(* runs with frames call updateState with finite numbers only.             *)

\* Math.cos(Math.PI / 4) * PHYSICS.FLY_AWAY_THRUST (800), in thousandths of a
\* pixel per s^2.
SCENE_FLY_AWAY_THRUST_AXIS == 565685

\* The longest deltaTime of a frame: Math.min(..., 0.033).
MAX_DELTA_TIME == 33

\* A flight is followed for this many milliseconds of frames.
MaxFlightMs == 270

\* v * a / b rounded to the nearest integer.
MulDivRound(v, a, b) ==
  IF v >= 0 THEN (v * a + b \div 2) \div b ELSE -(((-v) * a + b \div 2) \div b)

\* Math.exp(-u), u >= 0 and the result in thousandths: the Pade approximant
\* (12 - 6u + u^2) / (12 + 6u + u^2) up to u = 1 (within 0.0005), and
\* exp(-u) = exp(-u/2)^2 above.
RECURSIVE ExpNeg(_)
ExpNeg(u) ==
  IF u <= 1000
    THEN (((12000000 - 6000 * u + u * u) \div 100) * 1000)
           \div ((12000000 + 6000 * u + u * u) \div 100)
    ELSE LET h == ExpNeg(u \div 2) IN (h * h) \div 1000

\* Math.sin(a) for 0 <= a <= 1, in thousandths: a - a^3/6 + a^5/120.
Sin(a) ==
  LET a3 == (((a * a) \div 1000) * a) \div 1000
      a5 == (((a3 * a) \div 1000) * a) \div 1000
  IN a - a3 \div 6 + a5 \div 120

\* Math.atan2(y, x) in thousandths of a radian, within 0.005:
\* atan(z) = z / (1 + 0.28 z^2) for |z| <= 1, and pi/2 - atan(1/z) beyond.
Atan2(y, x) ==
  LET ax == IF x < 0 THEN -x ELSE x
      ay == IF y < 0 THEN -y ELSE y
  IN IF x = 0 /\ y = 0 THEN 0
     ELSE IF ay <= ax
       THEN LET a == MulDiv(y * x, 1000, x * x + (28 * y * y) \div 100)
            IN IF x > 0 THEN a ELSE IF y >= 0 THEN a + 3142 ELSE a - 3142
       ELSE (IF y > 0 THEN 1571 ELSE -1571)
              - MulDiv(x * y, 1000, y * y + (28 * x * x) \div 100)

\* The particles held in batches.
RECURSIVE CountParticles(_)
CountParticles(batches) ==
  IF batches = << >> THEN 0 ELSE Head(batches).n + CountParticles(Tail(batches))

\* `particle.life -= deltaTime` on every particle of a live list.
Aged(batches, dt) == [i \in 1..Len(batches) |-> [batches[i] EXCEPT !.age = @ + dt]]

\* `particle.life > 0` fails: the lives drawn lie in [shortest, longest), so a
\* batch of at least the longest age has run out, one younger than the
\* shortest has not, and one in between has if its draws were low (expire).
RunOut(batch, shortest, longest, expire) ==
  batch.age >= longest \/ (batch.age >= shortest /\ expire)

\* splice(0, k) on a live list: its k oldest particles leave.
RECURSIVE DropOldest(_, _)
DropOldest(batches, k) ==
  IF k <= 0 \/ batches = << >> THEN batches
  ELSE IF Head(batches).n <= k THEN DropOldest(Tail(batches), k - Head(batches).n)
  ELSE << [Head(batches) EXCEPT !.n = @ - k] >> \o Tail(batches)

\* updateExhaustParticles(planeX, planeY)
UpdateExhaustParticles(sc, dt, expire) ==
  LET particlesPerFrame == IF sc.isMobile THEN 1 ELSE 2
      maxParticles == IF sc.isMobile THEN 20 ELSE 40
      emitted == Aged(AddBatch(sc.particleAges.exhaust, particlesPerFrame), dt)
      alive == SelectSeq(emitted, LAMBDA b : ~RunOut(b, 300, 700, expire))
      excess == Max(0, CountParticles(alive) - maxParticles)
      kept == DropOldest(alive, excess)
  IN [sc EXCEPT
        !.particleAges.exhaust = kept,
        !.exhaustParticles = CountParticles(kept),
        !.particlePool =
           Recycle(Recycle(Acquire(sc.particlePool, particlesPerFrame),
                           CountParticles(emitted) - CountParticles(alive)),
                   excess)]

\* updateExplosionParticles(ticker)
UpdateExplosionParticles(sc, dt, expire) ==
  LET aged == Aged(sc.particleAges.explosion, dt)
      alive == SelectSeq(aged, LAMBDA b : ~RunOut(b, 500, 1000, expire))
  IN [sc EXCEPT
        !.particleAges.explosion = alive,
        !.explosionParticles = CountParticles(alive),
        !.explosionParticlePool =
           Recycle(sc.explosionParticlePool,
                   CountParticles(aged) - CountParticles(alive))]

\* updateCrashFlash(ticker)
UpdateCrashFlash(sc, dt) ==
  IF sc.crashFlashAlpha > 0
    THEN [sc EXCEPT !.crashFlashAlpha = Max(0, sc.crashFlashAlpha - 5 * dt)]
    ELSE sc

\* updateTrail(x, y): the new point, the length limit, and the alphas by index.
UpdateTrail(sc, x, y) ==
  LET maxTrailLength == IF sc.isMobile THEN 20 ELSE 40
      pushed == Append(sc.trailPoints, [x |-> x, y |-> y, alpha |-> 1000])
      held == IF Len(pushed) > maxTrailLength THEN Tail(pushed) ELSE pushed
  IN [sc EXCEPT !.trailPoints =
        [i \in 1..Len(held) |->
           [held[i] EXCEPT !.alpha = ((1000 - ((i - 1) * 1000) \div Len(held)) * 7) \div 10]]]

\* The trail faded by updateFlyAway: point.alpha *= 0.92.
FadeTrail(sc) ==
  [sc EXCEPT !.trailPoints =
     [i \in 1..Len(sc.trailPoints) |->
        [sc.trailPoints[i] EXCEPT !.alpha = (@ * 92) \div 100]]]

\* `plane.x || planeX`
OrElse(a, b) == IF a = 0 \/ a = NaN THEN b ELSE a

\* updateFlight(ticker); the plane exists. even: frameSkip is even.
UpdateFlight(sc, hasSprite, dt, even, expire) ==
  LET scaled == UpdateViewport(sc)
      planeX == FlightX(scaled)
      planeY == FlightY(scaled)
      currentX == OrElse(sc.plane.x, planeX)
      currentY == OrElse(sc.plane.y, planeY)
      smoothFactor == 1000 - ExpNeg(15 * dt)
      n == Len(sc.curvePoints)
      target ==
        IF n > 1
          THEN LET prev == sc.curvePoints[n - 1]
                   dx == MulDiv(scaled.elapsedSeconds - prev.t, scaled.scaleX, 100000)
                   dy == -MulDiv(scaled.currentMultiplier - prev.m, scaled.scaleY, 10000)
               IN MulDiv(Atan2(dy, dx), 3, 4)
          ELSE TAKEOFF_TILT
      current == sc.planeRotationCurrent
                   + MulDiv(target - sc.planeRotationCurrent, 1000 - ExpNeg(10 * dt), 1000)
      flown == [scaled EXCEPT
                  !.flightTime = sc.flightTime + dt,
                  !.plane.x = currentX + MulDivRound(planeX - currentX, smoothFactor, 1000),
                  !.plane.y = currentY + MulDivRound(planeY - currentY, smoothFactor, 1000),
                  !.plane.rotation = IF hasSprite THEN current ELSE sc.plane.rotation,
                  !.planeRotationTarget = target,
                  !.planeRotationCurrent = current,
                  !.planeScale = 1000 + (Sin(2 * (sc.flightTime + dt)) * 30) \div 1000]
      trailed == UpdateTrail(UpdateExhaustParticles(flown, dt, expire), planeX, planeY)
  IN IF ~sc.isMobile \/ even THEN DrawCurve(trailed) ELSE trailed

\* updateBetting(ticker); hover: Math.sin(ticker.lastTime * 0.001) * 3.
UpdateBetting(sc, hasSprite, hover) ==
  DrawCurve([sc EXCEPT
    !.plane.x = PADDING_LEFT(sc),
    !.plane.y = sc.height - PADDING_BOTTOM(sc) + hover,
    !.plane.rotation = IF hasSprite THEN TAKEOFF_TILT ELSE sc.plane.rotation])

\* updateIdle()
UpdateIdle(sc, hasSprite) ==
  DrawCurve([sc EXCEPT
    !.plane.x = PADDING_LEFT(sc),
    !.plane.y = sc.height - PADDING_BOTTOM(sc),
    !.plane.rotation = IF hasSprite THEN TAKEOFF_TILT ELSE sc.plane.rotation])

\* The clean-up at the end of updateFlyAway: the live lists are replaced by
\* empty ones.
FlyAwayCleanUp(sc) ==
  [sc EXCEPT
     !.plane.visible = FALSE,
     !.flyAwayPhysics.active = FALSE,
     !.explosionParticles = 0,
     !.particleAges.explosion = << >>,
     !.trailPoints = << >>]

\* updateFlyAway(ticker); the plane exists.
UpdateFlyAway(sc, hasSprite, dt, expire) ==
  LET p == sc.flyAwayPhysics
  IN IF ~p.active THEN sc
     ELSE
       LET vx == AirResistance(p.vx + MulDiv(SCENE_FLY_AWAY_THRUST_AXIS, dt, 1000), dt)
           vy == AirResistance(p.vy - MulDiv(SCENE_FLY_AWAY_THRUST_AXIS, dt, 1000), dt)
           x == p.x + MulDivRound(vx, dt, 100000)
           y == p.y + MulDivRound(vy, dt, 100000)
           angularVelocity == MulDiv(p.angularVelocity, 98, 100)
           rotation == p.rotation + MulDiv(angularVelocity, dt, 1000)
           scale == 1000 + ((1000 - ExpNeg(Max(0, ((x - sc.flyAwayStart.x) * 200) \div sc.width)))
                              * 6) \div 10
           distanceTraveled == Distance(x, y, sc.flyAwayStart.x, sc.flyAwayStart.y)
           maxDistance == Max(sc.width, sc.height) * 15
           alpha == Max(0, 1000 - (distanceTraveled * 1000) \div maxDistance)
           moved == [sc EXCEPT
                       !.flyAwayPhysics =
                          [x |-> x, y |-> y, vx |-> vx, vy |-> vy, rotation |-> rotation,
                           angularVelocity |-> angularVelocity, scale |-> scale,
                           alpha |-> alpha, active |-> TRUE],
                       !.plane.x = MulDivRound(x, 1, 10),
                       !.plane.y = MulDivRound(y, 1, 10),
                       !.plane.alpha = alpha,
                       !.plane.rotation = IF hasSprite THEN rotation ELSE sc.plane.rotation,
                       !.planeScale = IF hasSprite THEN sc.planeScale ELSE scale]
           drawn == FadeTrail(UpdateTrail(
                      UpdateCrashFlash(UpdateExplosionParticles(moved, dt, expire), dt),
                      MulDivRound(x, 1, 10), MulDivRound(y, 1, 10)))
       IN IF \/ alpha <= 0
             \/ x > (sc.width + 200) * 10
             \/ y < -2000
             \/ x < -2000
            THEN FlyAwayCleanUp(drawn)
            ELSE drawn

\* tickerLoop(ticker), deltaTime being dt. even: frameSkip is even after its
\* increment; hover: the sine of the betting hover; expire: the lives drawn
\* for the particles have run out as early as they can.
TickerLoopBody(sc, initialized, destroyed, hasApp, hasPlane, hasSprite, dt, even, hover, expire) ==
  IF ~hasApp \/ destroyed \/ ~initialized THEN sc
  ELSE IF ~hasPlane THEN sc
  ELSE IF (sc.isMobile /\ ~even) /\ sc.currentState # "FLYING" /\ ~sc.flyAwayPhysics.active
    THEN sc
  ELSE IF sc.currentState = "FLYING"
    THEN UpdateFlight([sc EXCEPT !.plane.visible = TRUE, !.plane.alpha = 1000],
                      hasSprite, dt, even, expire)
  ELSE IF sc.currentState = "CRASHED" /\ sc.flyAwayPhysics.active
    THEN UpdateFlyAway([sc EXCEPT !.plane.visible = TRUE], hasSprite, dt, expire)
  ELSE IF sc.currentState = "BETTING"
    THEN UpdateBetting([sc EXCEPT !.plane.visible = TRUE, !.plane.alpha = 1000],
                       hasSprite, hover)
  ELSE UpdateIdle([sc EXCEPT !.plane.visible = TRUE, !.plane.alpha = 1000], hasSprite)

----------------------------------------------------------------------------
(* ViewportSystem (src/game/systems/ViewportSystem.ts), in the units of    *)
(* the scene: windows in milliseconds and hundredths, scales in hundredths *)
(* of a pixel per second and per unit of multiplier.                       *)

\* The viewport after the constructor.
ViewportFields ==
  [scaleX |-> 100, scaleY |-> 100, maxTimeWindow |-> 10000, maxMultWindow |-> 200]

\* The arguments update() is called with.
ViewportElapsed == {NaN, PosInf, NegInf, -1000, 0, 8000, 8500, 12000, 70000}
ViewportMultipliers == {NaN, PosInf, NegInf, 50, 100, 160, 165, 500, 10000}
ViewportDimensions ==
  { [width |-> 1024, height |-> 768, paddingLeft |-> 60, paddingBottom |-> 60],
    [width |-> 400, height |-> 600, paddingLeft |-> 40, paddingBottom |-> 40],
    [width |-> 120, height |-> 90, paddingLeft |-> 40, paddingBottom |-> 40] }

\* ViewportUpdate shrinking a window back to what the current values need.
ViewportUpdate_Refit(v, elapsed, multiplier, dimensions) ==
  [v EXCEPT
     !.maxTimeWindow = IF elapsed \in {NaN, NegInf} THEN v.maxTimeWindow
                       ELSE JsMax(Div08(elapsed), 10000),
     !.maxMultWindow = IF multiplier \in {NaN, NegInf} THEN v.maxMultWindow
                       ELSE JsMax(Div08(multiplier), 200)]

\* ViewportSystem.update(elapsedSeconds, multiplier, dimensions) on viewport v.
ViewportUpdate(v, elapsed, multiplier, dimensions) ==
  LET timeWindow ==
        IF Over80(elapsed, v.maxTimeWindow)
          THEN JsMax(Div08(elapsed), 10000)
          ELSE v.maxTimeWindow
      multWindow ==
        IF Over80(multiplier, v.maxMultWindow)
          THEN JsMax(Div08(multiplier), 200)
          ELSE v.maxMultWindow
      availWidth == Max(dimensions.width - dimensions.paddingLeft, 100)
      availHeight == Max(dimensions.height - dimensions.paddingBottom, 100)
  IN [ maxTimeWindow |-> timeWindow,
       maxMultWindow |-> multWindow,
       scaleX |-> IF timeWindow = PosInf THEN 0
                  ELSE (availWidth * 100000) \div Max(timeWindow, 100),
       scaleY |-> IF multWindow = PosInf THEN 0
                  ELSE (availHeight * 10000) \div Max(multWindow - 100, 10) ]

\* ViewportSystem.reset() on viewport v.
ViewportReset(v) == [v EXCEPT !.maxTimeWindow = 10000, !.maxMultWindow = 200]

VsUpdate(elapsed, multiplier, dimensions) ==
  /\ viewport' = ViewportUpdate(viewport, elapsed, multiplier, dimensions)
  /\ UNCHANGED <<engineVars, sceneVars, lifeVars, poolVars, flyAwayVars>>

VsReset ==
  /\ viewport' = ViewportReset(viewport)
  /\ UNCHANGED <<engineVars, sceneVars, lifeVars, poolVars, flyAwayVars>>

\* new ViewportSystem()
SystemsStart ==
  viewport = ViewportFields /\ PoolsStart(0, 0) /\ FlyAwayBegin(33, 0)

----------------------------------------------------------------------------
(* AviatorScene and SceneManager: init() and destroy().                    *)
(*                                                                         *)
(* init() is an async function: it runs to its first await, and its        *)
(* continuation runs as a later step once the awaited promise has settled. *)
(* Any other call can run in between.  Each call of init() is an entry of  *)
(* initCalls; each Application it constructs is an entry of apps.          *)
(*                                                                         *)
(* pixi.js is outside the repository.  What the model takes from it:       *)
(* Application.init() settles some time after it is called; the renderer   *)
(* (and with it the canvas) comes into being at some point while it is     *)
(* pending, and is there when it resolves; ticker exists once it resolved; *)
(* destroy() releases the renderer and removes the canvas.                 *)

NoApp == 0

sceneLifeVars == <<app, isInitialized, isDestroyed, planeSprite, planeGraphics>>
managerVars == <<smApp, smIsInitialized, smIsDestroyed>>

\* init() calls followed per object, where the scene's fields are not followed.
MaxInitCalls == 2

\* new Application()
NewApplication(owner) ==
  [ owner |-> owner, phase |-> "initializing", renderer |-> FALSE,
    destroyed |-> FALSE, canvasAttached |-> FALSE, tickerAdded |-> FALSE,
    destroyCalls |-> 0, tickerRemovals |-> 0 ]

\* app.destroy({ removeView: true }, { children: true }) on Application a.
AppDestroy(as, a) ==
  [as EXCEPT ![a].destroyed = TRUE, ![a].renderer = FALSE,
             ![a].canvasAttached = FALSE, ![a].tickerAdded = FALSE,
             ![a].destroyCalls = @ + 1]

\* app.ticker is there: Application a has been initialised and not destroyed.
HasTicker(as, a) == as[a].phase = "ready" /\ ~as[a].destroyed

\* app.ticker.remove(this.tickerLoop) on Application a.
TickerRemove(as, a) ==
  [as EXCEPT ![a].tickerAdded = FALSE, ![a].tickerRemovals = @ + 1]

CallsOf(owner) == { c \in DOMAIN initCalls : initCalls[c].owner = owner }

Pending(c) == initCalls[c].pc \in {"awaitAppInit", "awaitPlane"}

\* The init() calls of owner that are pending are marked: destroy() ran
\* while they were suspended.
MarkDestroyed(owner) ==
  [c \in DOMAIN initCalls |->
     IF initCalls[c].owner = owner /\ Pending(c)
       THEN [initCalls[c] EXCEPT !.destroyedDuring = TRUE]
       ELSE initCalls[c]]

\* pixi.js: the renderer of a pending Application is created.
PixiRendererCreated(a) ==
  /\ a \in DOMAIN apps
  /\ apps[a].phase = "initializing"
  /\ ~apps[a].renderer
  /\ ~apps[a].destroyed
  /\ apps' = [apps EXCEPT ![a].renderer = TRUE]
  /\ UNCHANGED <<sceneLifeVars, managerVars, initCalls, initCap, sceneVars, engineVars, systemVars>>

\* pixi.js: the promise of Application.init() resolves.
PixiInitResolves(a) ==
  /\ a \in DOMAIN apps
  /\ apps[a].phase = "initializing"
  /\ apps[a].renderer \/ apps[a].destroyed
  /\ apps' = [apps EXCEPT ![a].phase = "ready"]
  /\ UNCHANGED <<sceneLifeVars, managerVars, initCalls, initCap, sceneVars, engineVars, systemVars>>

\* pixi.js: the promise of Application.init() rejects.
PixiInitRejects(a) ==
  /\ a \in DOMAIN apps
  /\ apps[a].phase = "initializing"
  /\ ~apps[a].renderer
  /\ apps' = [apps EXCEPT ![a].phase = "failed"]
  /\ UNCHANGED <<sceneLifeVars, managerVars, initCalls, initCap, sceneVars, engineVars, systemVars>>

\* The fields of AviatorScene that safeDestroyApp() touches.
SceneLife ==
  [ app |-> app, planeSprite |-> planeSprite, planeGraphics |-> planeGraphics,
    apps |-> apps ]

SetSceneLife(l) ==
  /\ app' = l.app
  /\ planeSprite' = l.planeSprite
  /\ planeGraphics' = l.planeGraphics
  /\ apps' = l.apps

\* safeDestroyApp() without `if (this.app.renderer && this.app.stage)` and
\* without `this.app = null`.
SafeDestroyApp_Unguarded(l) ==
  IF l.app = NoApp THEN l
  ELSE [l EXCEPT !.planeSprite = FALSE, !.planeGraphics = FALSE,
                 !.apps = AppDestroy(l.apps, l.app)]

\* AviatorScene.safeDestroyApp()
SafeDestroyApp(l) ==
  IF l.app = NoApp THEN l
  ELSE LET off == IF HasTicker(l.apps, l.app) THEN TickerRemove(l.apps, l.app)
                  ELSE l.apps
       IN [ app |-> NoApp, planeSprite |-> FALSE, planeGraphics |-> FALSE,
            apps |-> IF l.apps[l.app].renderer THEN AppDestroy(off, l.app)
                     ELSE off ]

\* AviatorScene.init(), up to `await this.app.init(...)`.
SceneInit ==
  /\ ~isInitialized /\ ~isDestroyed
  /\ Cardinality(CallsOf("scene")) < initCap.scene
  /\ apps' = Append(apps, NewApplication("scene"))
  /\ app' = Len(apps) + 1
  /\ initCalls' = Append(initCalls,
                         [owner |-> "scene", pc |-> "awaitAppInit",
                          app |-> Len(apps) + 1, destroyedDuring |-> FALSE])
  /\ UNCHANGED <<isInitialized, isDestroyed, planeSprite, planeGraphics, sceneVars, initCap, managerVars, engineVars, systemVars>>

\* AviatorScene.init(), from the settling of app.init() to `await this.createPlane()`
\* or to its end.
SceneResumeAfterAppInit(c) ==
  /\ c \in CallsOf("scene")
  /\ initCalls[c].pc = "awaitAppInit"
  /\ apps[initCalls[c].app].phase \in {"ready", "failed"}
  /\ IF apps[initCalls[c].app].phase = "failed"
       THEN \* catch: safeDestroyApp(); throw error
            /\ SetSceneLife(SafeDestroyApp(SceneLife))
            /\ initCalls' = [initCalls EXCEPT ![c].pc = "rejected"]
     ELSE IF isDestroyed
       THEN /\ SetSceneLife(SafeDestroyApp(SceneLife))
            /\ initCalls' = [initCalls EXCEPT ![c].pc = "returned"]
     ELSE IF app = NoApp \/ ~apps[app].renderer
       THEN \* this.app.canvas throws a TypeError, caught as above
            /\ SetSceneLife(SafeDestroyApp(SceneLife))
            /\ initCalls' = [initCalls EXCEPT ![c].pc = "rejected"]
     ELSE /\ apps' = [apps EXCEPT ![app].canvasAttached = TRUE]
          /\ initCalls' = [initCalls EXCEPT ![c].pc = "awaitPlane"]
          /\ UNCHANGED <<app, planeSprite, planeGraphics>>
  /\ UNCHANGED <<isInitialized, isDestroyed, sceneVars, initCap, managerVars, engineVars, systemVars>>

\* createPlane() from the settling of loadTexture(), a texture having been
\* loaded or not, and AviatorScene.init() from there to its end.
SceneResumeAfterPlane(c, texture) ==
  /\ c \in CallsOf("scene")
  /\ initCalls[c].pc = "awaitPlane"
  /\ planeSprite' = (planeSprite \/ texture)
  /\ planeGraphics' = (planeGraphics \/ ~texture)
  /\ SetScn(ResetScene(Scn, TRUE, planeSprite \/ texture))
  /\ IF app = NoApp
       THEN \* this.app.ticker throws a TypeError; catch: safeDestroyApp()
            \* returns at once, the error is rethrown
            /\ initCalls' = [initCalls EXCEPT ![c].pc = "rejected"]
            /\ UNCHANGED <<apps, isInitialized>>
       ELSE /\ apps' = [apps EXCEPT ![app].tickerAdded =
                           (@ \/ apps[app].phase = "ready")]
            /\ isInitialized' = TRUE
            /\ initCalls' = [initCalls EXCEPT ![c].pc = "returned"]
  /\ UNCHANGED <<app, isDestroyed, initCap, managerVars, engineVars, systemVars>>

\* AviatorScene.destroy() on the flags and the fields safeDestroyApp() touches.
SceneDestroyBody(s) ==
  IF s.isDestroyed THEN s
  ELSE [ isDestroyed |-> TRUE, isInitialized |-> FALSE,
         life |-> SafeDestroyApp(s.life) ]

SceneFlags ==
  [ isDestroyed |-> isDestroyed, isInitialized |-> isInitialized, life |-> SceneLife ]

\* AviatorScene.destroy()
SceneDestroy ==
  /\ isDestroyed' = SceneDestroyBody(SceneFlags).isDestroyed
  /\ isInitialized' = SceneDestroyBody(SceneFlags).isInitialized
  /\ SetSceneLife(SceneDestroyBody(SceneFlags).life)
  /\ initCalls' = MarkDestroyed("scene")
  /\ UNCHANGED <<sceneVars, initCap, managerVars, engineVars, systemVars>>

HasPlane == planeSprite \/ planeGraphics

\* The host calls scene.updateState(st, multiplier, elapsedSeconds).
UpdateState(st, multiplier, elapsed) ==
  LET sc == UpdateStateBody(Scn, isInitialized, isDestroyed, HasPlane, planeSprite,
                            st, multiplier, elapsed)
  IN /\ Len(sc.curvePoints) <= MaxCurvePoints
     /\ sc.explosionParticles <= MaxExplosionParticles
     /\ SetScn(sc)
     /\ UNCHANGED <<lifeVars, engineVars, systemVars>>

\* The host's ResizeObserver calls scene.resize(w, h).
Resize(w, h, innerWidth) ==
  /\ SetScn(ResizeBody(Scn, isInitialized, isDestroyed, app # NoApp, HasPlane,
                       planeSprite, w, h, innerWidth))
  /\ UNCHANGED <<lifeVars, engineVars, systemVars>>

\* pixi's ticker calls tickerLoop: one frame of the run's frame interval.
TickerLoop(even, hover, expire) ==
  LET dt == Min(frameMs, MAX_DELTA_TIME)
  IN /\ currentState = "FLYING" => flightTime + dt <= MaxFlightMs
     /\ SetScn(TickerLoopBody(Scn, isInitialized, isDestroyed, app # NoApp, HasPlane,
                              planeSprite, dt, even, hover, expire))
     /\ UNCHANGED <<lifeVars, engineVars, systemVars>>

\* The fields of SceneManager that destroy() touches.
ManagerLife ==
  [ smApp |-> smApp, smIsInitialized |-> smIsInitialized,
    smIsDestroyed |-> smIsDestroyed, apps |-> apps ]

SetManagerLife(m) ==
  /\ smApp' = m.smApp
  /\ smIsInitialized' = m.smIsInitialized
  /\ smIsDestroyed' = m.smIsDestroyed
  /\ apps' = m.apps

\* SceneManager.destroy()
ManagerDestroyBody(m) ==
  IF m.smIsDestroyed THEN m
  ELSE [ smApp |-> NoApp, smIsInitialized |-> FALSE, smIsDestroyed |-> TRUE,
         apps |-> IF m.smApp # NoApp /\ m.apps[m.smApp].renderer
                    THEN AppDestroy(m.apps, m.smApp)
                    ELSE m.apps ]

\* SceneManager.init(), up to `await this.app.init(...)`.
ManagerInit ==
  /\ ~smIsInitialized /\ ~smIsDestroyed
  /\ Cardinality(CallsOf("manager")) < initCap.manager
  /\ apps' = Append(apps, NewApplication("manager"))
  /\ smApp' = Len(apps) + 1
  /\ initCalls' = Append(initCalls,
                         [owner |-> "manager", pc |-> "awaitAppInit",
                          app |-> Len(apps) + 1, destroyedDuring |-> FALSE])
  /\ UNCHANGED <<smIsInitialized, smIsDestroyed, initCap, sceneLifeVars, sceneVars, engineVars, systemVars>>

\* SceneManager.init(), from the settling of app.init() to its end.
ManagerResume(c) ==
  /\ c \in CallsOf("manager")
  /\ initCalls[c].pc = "awaitAppInit"
  /\ apps[initCalls[c].app].phase \in {"ready", "failed"}
  /\ IF apps[initCalls[c].app].phase = "failed"
       THEN \* catch: this.destroy(); throw error
            /\ SetManagerLife(ManagerDestroyBody(ManagerLife))
            /\ initCalls' = [initCalls EXCEPT ![c].pc = "rejected"]
     ELSE IF smIsDestroyed
       THEN /\ SetManagerLife(ManagerDestroyBody(ManagerLife))
            /\ initCalls' = [initCalls EXCEPT ![c].pc = "returned"]
     ELSE IF smApp = NoApp \/ ~apps[smApp].renderer
       THEN \* this.app.canvas throws a TypeError, caught as above
            /\ SetManagerLife(ManagerDestroyBody(ManagerLife))
            /\ initCalls' = [initCalls EXCEPT ![c].pc = "rejected"]
     ELSE /\ apps' = [apps EXCEPT ![smApp].canvasAttached = TRUE]
          /\ smIsInitialized' = TRUE
          /\ initCalls' = [initCalls EXCEPT ![c].pc = "returned"]
          /\ UNCHANGED <<smApp, smIsDestroyed>>
  /\ UNCHANGED <<initCap, sceneLifeVars, sceneVars, engineVars, systemVars>>

\* SceneManager.destroy()
ManagerDestroy ==
  /\ SetManagerLife(ManagerDestroyBody(ManagerLife))
  /\ initCalls' = MarkDestroyed("manager")
  /\ UNCHANGED <<initCap, sceneLifeVars, sceneVars, engineVars, systemVars>>

\* The scene's fields after `new AviatorScene(container)`.
SceneStart(layout) ==
  LET sc == SceneFields(layout)
  IN /\ plane = sc.plane
     /\ width = sc.width
     /\ height = sc.height
     /\ isMobile = sc.isMobile
     /\ currentState = sc.currentState
     /\ currentMultiplier = sc.currentMultiplier
     /\ elapsedSeconds = sc.elapsedSeconds
     /\ curvePoints = sc.curvePoints
     /\ trailPoints = sc.trailPoints
     /\ exhaustParticles = sc.exhaustParticles
     /\ explosionParticles = sc.explosionParticles
     /\ particleAges = sc.particleAges
     /\ particlePool = sc.particlePool
     /\ explosionParticlePool = sc.explosionParticlePool
     /\ planeScale = sc.planeScale
     /\ planeRotationTarget = sc.planeRotationTarget
     /\ planeRotationCurrent = sc.planeRotationCurrent
     /\ flightTime = sc.flightTime
     /\ flyAwayPhysics = sc.flyAwayPhysics
     /\ flyAwayStart = sc.flyAwayStart
     /\ crashFlashAlpha = sc.crashFlashAlpha
     /\ maxTimeWindow = sc.maxTimeWindow
     /\ maxMultWindow = sc.maxMultWindow
     /\ scaleX = sc.scaleX
     /\ scaleY = sc.scaleY

\* No init() has been called on the scene or on the manager.
LifeStart(sceneCalls, managerCalls) ==
  /\ initCap = [scene |-> sceneCalls, manager |-> managerCalls]
  /\ app = NoApp
  /\ isInitialized = FALSE
  /\ isDestroyed = FALSE
  /\ planeSprite = FALSE
  /\ planeGraphics = FALSE
  /\ smApp = NoApp
  /\ smIsInitialized = FALSE
  /\ smIsDestroyed = FALSE
  /\ apps = << >>
  /\ initCalls = << >>

DesktopLayout == [width |-> 1024, height |-> 768, isMobile |-> FALSE]

\* A run of the engine: the scene and the manager stay as constructed.
RenderingIdle == SceneStart(DesktopLayout) /\ LifeStart(0, 0) /\ SystemsStart

----------------------------------------------------------------------------
(* Specifications *)

EngineInit == EngineStart(RandomStreams, MaxRounds)

Init == EngineInit /\ RenderingIdle

Next == EngineNext

\* The engine with its subscribers.
Spec == Init /\ [][Next]_vars

\* The engine alone, followed until its history has overflowed.
HistoryInit == EngineStart(RandomStreams, HistoryRounds) /\ RenderingIdle

HistoryNext ==
  \/ Construct
  \/ \E d \in TickSteps : Tick(d, 0)
  \/ Cleanup

SpecHistory == HistoryInit /\ [][HistoryNext]_vars

\* generateNextCrashPoint on its own: the constructor's call, for every pair
\* of values the two Math.random() calls can return.
FirstDraws == {0, 9, 10, 500, 999}

CrashInit ==
  /\ EngineStart({ <<d1, r>> : d1 \in FirstDraws, r \in 0..(RandUnits - 1) }, MaxRounds)
  /\ RenderingIdle

SpecCrash == CrashInit /\ [][Construct]_vars

\* The engine with subscribers that write to what they were handed.
MutateNext ==
  \/ Next
  \/ \E i \in 1..MaxListeners, w \in {"multiplier", "history"} : MutateSnapshot(i, w)

SpecMutate == Init /\ [][MutateNext]_vars

\* The engine with subscribers that unsubscribe, also from inside their own
\* callback and more than once.
UnsubNext ==
  \/ Next
  \/ \E d \in TickSteps, unsubs \in SUBSET Listeners : TickUnsubscribing(d, unsubs)

SpecUnsub == Init /\ [][UnsubNext]_vars

\* The engine never cleaned up: the interval timer keeps calling tick() and
\* the clock read by successive calls keeps advancing.
\* One subscriber, which may throw, is followed.
LiveNext ==
  \/ Construct
  \/ \E throws \in BOOLEAN : Subscribe(1, throws)
  \/ Unsubscribe(1)
  \/ \E d \in TickSteps : \E k \in 0..Len(listeners) : Tick(d, k)

ClockTick == \E d \in TickSteps \ {0} : \E k \in 0..Len(listeners) : Tick(d, k)

SpecLive == Init /\ [][LiveNext]_vars /\ WF_vars(ClockTick)

\* Two engines side by side, constructed at the same moment and ticked by
\* timers that fire at the same moments, which differ in the crash point drawn:
\* the streams of Math.random() values of the pairs explored.
PairStreams ==
  { <<5>>,          \* instant crash
    <<100, 0>>,     \* 0.99, floored to 1.00
    <<500, 340>>,   \* 1.50
    <<500, 500>>,   \* 1.98
    <<20, 999>> }   \* 100.00 (capped)

PairInit ==
  /\ EngineFields(PairStreams, 1)
  /\ \E s \in PairStreams \ {rngStream} : twin = [e |-> FieldInit, stream |-> s]
  /\ RenderingIdle

\* new MockGameEngine(), twice.
PairConstruct ==
  /\ ~constructed
  /\ constructed' = TRUE
  /\ SetEng(EnterBettingPhase(Eng, rngStream))
  /\ twin' = [twin EXCEPT !.e = EnterBettingPhase(twin.e, twin.stream)]
  /\ loopInterval' = "armed"
  /\ lastOp' = "construct"
  /\ UNCHANGED <<listeners, rngStream, unsubFns, notified, thrown, roundCap,
                 sceneVars, lifeVars, systemVars>>

\* Both interval callbacks, d ms after the previous ones.
PairTick(d) ==
  /\ loopInterval = "armed"
  /\ elapsedMs + d <= MaxElapsedMs
  /\ twin.e.elapsedMs + d <= MaxElapsedMs
  /\ LET e == TickBody(Eng, rngStream, d)
         t == TickBody(twin.e, twin.stream, d)
     IN /\ e.roundIdCounter <= roundCap + 1
        /\ t.roundIdCounter <= roundCap + 1
        /\ SetEng(e)
        /\ twin' = [twin EXCEPT !.e = t]
        /\ notified' = EmitCalls(listeners, e.state, 0)
  /\ thrown' = 0
  /\ lastOp' = "tick"
  /\ UNCHANGED <<constructed, listeners, loopInterval, rngStream, unsubFns, roundCap,
                 sceneVars, lifeVars, systemVars>>

PairNext ==
  \/ PairConstruct
  \/ \E d \in TickSteps : PairTick(d)

SpecPair == PairInit /\ [][PairNext]_vars

\* The engine as constructed in a run of the scene or of the manager.
EngineIdle == EngineStart({ <<5>> }, MaxRounds)

\* The scene: its life cycle and the calls of updateState.
SceneInitState ==
  /\ EngineIdle /\ LifeStart(1, 0) /\ SystemsStart
  /\ \E layout \in Layouts : SceneStart(layout)

PixiNext ==
  \/ \E a \in DOMAIN apps : PixiRendererCreated(a)
  \/ \E a \in DOMAIN apps : PixiInitResolves(a)
  \/ \E a \in DOMAIN apps : PixiInitRejects(a)

SceneLifeNext ==
  \/ SceneInit
  \/ \E c \in DOMAIN initCalls : SceneResumeAfterAppInit(c)
  \/ \E c \in DOMAIN initCalls, texture \in BOOLEAN : SceneResumeAfterPlane(c, texture)
  \/ SceneDestroy

SceneNext ==
  \/ SceneLifeNext
  \/ PixiNext
  \/ \E st \in GameStates, m \in MultiplierInputs, e \in ElapsedInputs :
       UpdateState(st, m, e)

SpecScene == SceneInitState /\ [][SceneNext]_vars

\* The scene with the container resized at any moment, and flights long and
\* high enough for the windows to grow.
FlightMultipliers == {100, 500}
FlightElapsed == {0, 12000}

ResizeNext ==
  \/ SceneLifeNext
  \/ PixiNext
  \/ \E st \in GameStates, m \in FlightMultipliers, e \in FlightElapsed :
       UpdateState(st, m, e)
  \/ \E r \in ResizeInputs : Resize(r.width, r.height, r.innerWidth)

SpecResize == SceneInitState /\ [][ResizeNext]_vars

\* The life cycle of the scene or of the manager, whichever the run follows.
LifeInit ==
  /\ EngineIdle
  /\ SceneStart(DesktopLayout)
  /\ SystemsStart
  /\ LifeStart(MaxInitCalls, 0) \/ LifeStart(0, MaxInitCalls)

LifeNext ==
  \/ SceneLifeNext
  \/ PixiNext
  \/ ManagerInit
  \/ \E c \in DOMAIN initCalls : ManagerResume(c)
  \/ ManagerDestroy

SpecLife == LifeInit /\ [][LifeNext]_vars

\* The viewport system on its own, update() and reset() called in any order.
ViewportInit == EngineIdle /\ RenderingIdle

ViewportNext ==
  \/ \E e \in ViewportElapsed, m \in ViewportMultipliers, dims \in ViewportDimensions :
       VsUpdate(e, m, dims)
  \/ VsReset

SpecViewport == ViewportInit /\ [][ViewportNext]_vars

\* The particle system on its own: the run follows the callers of one of the
\* two free lists.
PoolInit ==
  /\ EngineIdle
  /\ SceneStart(DesktopLayout)
  /\ LifeStart(0, 0)
  /\ viewport = ViewportFields
  /\ FlyAwayBegin(33, 0)
  /\ PoolsStart(MaxHeld, 0) \/ PoolsStart(0, MaxHeld)

PoolNext ==
  \/ PsGetParticle
  \/ \E p \in psHeld.particle, kept \in BOOLEAN : PsRecycleParticle(p, kept)
  \/ PsGetExplosionParticle
  \/ \E p \in psHeld.explosion, kept \in BOOLEAN : PsRecycleExplosionParticle(p, kept)
  \/ \E kind \in {"particle", "explosion"} : \E p \in psHeld[kind] : PsForget(kind, p)

SpecPool == PoolInit /\ [][PoolNext]_vars

\* The two effects on one ParticleSystem, their methods called in any order.
FxIntervals == {60, 450}
FxDraws == {0, 999}
WarmFrames == {0, 19}

FxInit ==
  /\ EngineIdle
  /\ SceneStart(DesktopLayout)
  /\ LifeStart(0, 0)
  /\ viewport = ViewportFields
  /\ FlyAwayBegin(33, 0)
  /\ \E mobile \in BOOLEAN, frames \in WarmFrames : EffectsStart(mobile, frames)

FxNext ==
  \/ \E rs \in ExhaustDraws(exhaustEffect.isMobile) : ExhaustEmit(rs)
  \/ \E dt \in FxIntervals : ExhaustUpdate(dt)
  \/ ExhaustClear
  \/ \E r \in FxDraws : ExplosionCreate(r)
  \/ \E dt \in FxIntervals, at \in BOOLEAN, r \in FxDraws : ExplosionUpdate(dt, at, r)
  \/ ExplosionClear

SpecFx == FxInit /\ [][FxNext]_vars

\* The fly-away animation on its own: started, updated every frame, reset.
FlyAwayInit ==
  /\ EngineIdle
  /\ SceneStart(DesktopLayout)
  /\ LifeStart(0, 0)
  /\ viewport = ViewportFields
  /\ PoolsStart(0, 0)
  /\ \E dt \in FrameIntervals : FlyAwayBegin(dt, MaxStarts)

FaUpdateAny == \E dims \in FlyAwayDimensions : FaUpdate(dims)

FlyAwayNext ==
  \/ \E x \in FlyAwayXs, y \in FlyAwayYs : FaStart(x, y, TAKEOFF_TILT)
  \/ FaUpdateAny
  \/ FaReset

SpecFlyAway == FlyAwayInit /\ [][FlyAwayNext]_vars /\ WF_vars(FaUpdateAny)

\* The scene with flights sampled closely: elapsed times and multipliers on
\* either side of the recording thresholds.
CurveMultipliers == {100, 104, 112}
CurveElapsed == {0, 60}

CurveNext ==
  \/ SceneLifeNext
  \/ PixiNext
  \/ \E st \in GameStates, m \in CurveMultipliers, e \in CurveElapsed :
       UpdateState(st, m, e)

SpecCurve == SceneInitState /\ [][CurveNext]_vars

\* The scene with its ticker running and never destroyed: frames between the
\* calls of updateState, which follow the engine's rounds. A round flies to
\* 5.00x in 12 s; the crash comes after any number of frames of the flight.
HoverInputs == {3}

RoundCalls ==
  { [st |-> "BETTING", m |-> 100, e |-> 0],
    [st |-> "FLYING", m |-> 500, e |-> 12000],
    [st |-> "CRASHED", m |-> 500, e |-> 12000] }

\* The phase the engine reports after the phase from.
PhaseAfter(from) ==
  CASE from = "IDLE" -> "BETTING"
    [] from = "BETTING" -> "FLYING"
    [] from = "FLYING" -> "CRASHED"
    [] OTHER -> "BETTING"

\* The scene has started a fly-away in this run: one round and the reset
\* after it are followed.
HasCrashed == flyAwayPhysics.angularVelocity # 0 \/ flyAwayPhysics.vx # 0

FrameNext ==
  \/ SceneInit
  \/ \E c \in DOMAIN initCalls : SceneResumeAfterAppInit(c)
  \/ \E c \in DOMAIN initCalls, texture \in BOOLEAN : SceneResumeAfterPlane(c, texture)
  \/ PixiNext
  \/ \E call \in RoundCalls :
       /\ call.st \in {currentState, PhaseAfter(currentState)}
       /\ (currentState = "BETTING" /\ call.st = "FLYING") => ~HasCrashed
       /\ UpdateState(call.st, call.m, call.e)
  \/ \E even \in BOOLEAN, hover \in HoverInputs, expire \in BOOLEAN :
       TickerLoop(even, hover, expire)

SpecFrames == SceneInitState /\ [][FrameNext]_vars

----------------------------------------------------------------------------
(* The round state machine *)

PhaseChanges ==
  { <<"BETTING", "FLYING">>, <<"FLYING", "CRASHED">>, <<"CRASHED", "BETTING">> }

\* C1: every phase change the engine makes is BETTING->FLYING, FLYING->CRASHED
\* or CRASHED->BETTING; IDLE is left for BETTING by the constructor, so that no
\* tick and no subscriber sees IDLE, and IDLE is never entered again.
C1_PhaseCycle ==
  [][ /\ state'.gameState # state.gameState =>
            \/ <<state.gameState, state'.gameState>> \in PhaseChanges
            \/ ~constructed /\ state.gameState = "IDLE" /\ state'.gameState = "BETTING"
      /\ constructed' => state'.gameState # "IDLE"
      /\ \A i \in 1..Len(notified') : notified'[i].snap.gameState # "IDLE"
    ]_vars

\* A subscribed engine back in BETTING after a full round.
C1_Witness ==
  /\ state.gameState = "BETTING"
  /\ roundIdCounter > 1
  /\ Len(notified) > 0

\* C2: within a FLYING phase the multiplier never decreases from one tick to the
\* next, the crash tick's snap to crashPoint included, and it is exactly 1.00
\* when FLYING is entered.
C2_MultiplierMonotone ==
  [][ /\ state.gameState = "FLYING" =>
            state'.currentMultiplier >= state.currentMultiplier
      /\ state.gameState # "FLYING" /\ state'.gameState = "FLYING" =>
            state'.currentMultiplier = 100
    ]_vars

\* A crash at 1.50: the tick computed 1.53 and snapped down to the crash point.
C2_Witness ==
  /\ state.gameState = "CRASHED"
  /\ lastOp = "tick"
  /\ state.currentMultiplier = 150
  /\ elapsedMs = 0

\* C3: a FLYING tick whose rounded multiplier reaches crashPoint (1.00 included)
\* crashes in that same tick: phase CRASHED, multiplier exactly crashPoint, one
\* entry with multiplier crashPoint put in front of the history; a tick that
\* stays FLYING is below crashPoint; the history changes at no other step.
C3_CrashTick ==
  [][ /\ state.gameState = "FLYING" /\ state'.gameState = "FLYING" /\ lastOp' = "tick" =>
            /\ state'.currentMultiplier = RawMultiplier(elapsedMs')
            /\ state'.currentMultiplier < crashPoint
      /\ state.gameState = "FLYING" /\ state'.gameState = "CRASHED" =>
            /\ \E d \in TickSteps : RawMultiplier(elapsedMs + d) >= crashPoint
            /\ crashPoint' = crashPoint
            /\ state'.currentMultiplier = crashPoint
            /\ Len(state'.history) = Min(Len(state.history) + 1, HISTORY_LIMIT)
            /\ state'.history[1].multiplier = crashPoint
            /\ \A i \in 2..Len(state'.history) :
                  state'.history[i] = state.history[i - 1]
      /\ state'.history # state.history =>
            state.gameState = "FLYING" /\ state'.gameState = "CRASHED"
    ]_vars

\* A crash at 1.98, a value the rounded curve takes exactly, after earlier rounds.
C3_Witness ==
  /\ state.gameState = "CRASHED"
  /\ state.currentMultiplier = 198
  /\ Len(state.history) >= 2
  /\ state.history[1].multiplier = 198

\* C6: the history holds at most 20 entries, most recent first: entry i is the
\* i-th latest crash, so the 21st crash evicts the oldest entry.
C6_HistoryBounded ==
  /\ Len(state.history) = Min(roundIdCounter - 1, HISTORY_LIMIT)
  /\ Len(state.history) <= 20
  /\ \A i \in 1..Len(state.history) : state.history[i].roundId = roundIdCounter - i

\* The 21st crash has happened: round 1 is gone, rounds 21..2 are held.
C6_Witness ==
  /\ roundIdCounter = 22
  /\ Len(state.history) = 20
  /\ state.history[20].roundId = 2

\* C7: whatever Math.random() returns, generateNextCrashPoint stores a crash
\* point within [1.00, 100.00], exactly 1.00 on the instant-crash branch.
C7_CrashPointRange ==
  constructed =>
    /\ 100 <= crashPoint
    /\ crashPoint <= 10000
    /\ rngStream[1] * 100 < RandUnits => crashPoint = 100

\* A draw past the cap (0.99 / (1 - 0.999) = 990) stored as 100.00.
C7_Witness ==
  /\ constructed
  /\ rngStream = <<500, 999>>
  /\ crashPoint = 10000

----------------------------------------------------------------------------
(* The subscription contract *)

\* The calls of the last operation that went to listener l.
CallsTo(l) == { i \in 1..Len(notified) : notified[i].listener = l }

\* C8 as claimed: subscribe(l) calls l exactly once before it returns; every
\* tick calls every subscribed listener exactly once, with the state the tick
\* left; a listener that is not subscribed is not called.
C8_NotifiedOncePerTick ==
  /\ lastOp = "subscribe" =>
        /\ Len(notified) = 1
        /\ notified[1].snap = state
        /\ notified[1].listener \in SeqRange(listeners)
  /\ lastOp = "tick" =>
        /\ \A l \in SeqRange(listeners) : Cardinality(CallsTo(l)) = 1
        /\ \A i \in 1..Len(notified) :
              /\ notified[i].listener \in SeqRange(listeners)
              /\ notified[i].snap = state
  /\ lastOp \in {"unsubscribe", "cleanup"} => notified = << >>

\* C10 as claimed: when a listener throws during a tick's notification, every
\* other subscribed listener is still notified in that tick, and the timer
\* stays armed.
C10_ThrowIsolated ==
  lastOp = "tick" /\ thrown # 0 =>
     /\ \A l \in SeqRange(listeners) : CallsTo(l) # {}
     /\ loopInterval = "armed"

\* C9 as claimed: what a subscriber is handed is a defensive copy, so a write
\* to it changes neither the engine's state nor what another subscriber holds.
C9_DefensiveCopy ==
  [][ lastOp' = "mutate" =>
        /\ state' = state
        /\ \E i \in 1..Len(notified) :
              \A j \in 1..Len(notified) : j # i => notified'[j] = notified[j]
    ]_vars
----------------------------------------------------------------------------
(* The scene's life cycle and input validation *)

Finished(c) == initCalls[c].pc \in {"returned", "rejected"}

\* C4 as claimed: once an init() call during which destroy() was called has
\* finished, the Application it created, if it was initialised, has been
\* destroyed and its canvas is not attached to the container.
C4_DestroyDuringInit ==
  \A c \in DOMAIN initCalls :
    (Finished(c) /\ initCalls[c].destroyedDuring /\
     apps[initCalls[c].app].phase = "ready")
      => /\ apps[initCalls[c].app].destroyed
         /\ ~apps[initCalls[c].app].canvasAttached

InvalidInput(m, e) ==
  \/ m \in {NaN, PosInf, NegInf} \/ m < 100
  \/ e \in {NaN, PosInf, NegInf} \/ e < 0

\* C5 as claimed: in whatever state the scene is, a call of updateState with
\* a multiplier that is NaN, +Infinity, -Infinity or below 1, or with an
\* elapsedSeconds that is NaN, +Infinity, -Infinity or negative, leaves every
\* field of the scene as it was.
C5_InvalidInputIgnored ==
  \A st \in GameStates, m \in MultiplierInputs, e \in ElapsedInputs :
    InvalidInput(m, e) =>
      UpdateStateBody(Scn, isInitialized, isDestroyed, HasPlane, planeSprite,
                      st, m, e) = Scn

\* C17: destroy() called again changes nothing, on the scene and on the
\* manager, in whatever state they are; and over a whole run no Application
\* has destroy() called on it more than once, nor the scene's ticker callback
\* removed from it more than once.
C17_DestroyIdempotent ==
  /\ SceneDestroyBody(SceneDestroyBody(SceneFlags)) = SceneDestroyBody(SceneFlags)
  /\ ManagerDestroyBody(ManagerDestroyBody(ManagerLife)) = ManagerDestroyBody(ManagerLife)
  /\ isDestroyed => SceneDestroyBody(SceneFlags) = SceneFlags
  /\ smIsDestroyed => ManagerDestroyBody(ManagerLife) = ManagerLife
  /\ \A a \in DOMAIN apps : apps[a].destroyCalls <= 1 /\ apps[a].tickerRemovals <= 1

\* A destroyed scene whose Application was running: destroy() was called on the
\* Application once and the ticker callback was removed once.
C17_Witness ==
  /\ isDestroyed
  /\ \E a \in DOMAIN apps :
       /\ apps[a].owner = "scene"
       /\ apps[a].destroyCalls = 1
       /\ apps[a].tickerRemovals = 1

\* C18 as claimed: an init() call of the scene during which destroy() was
\* called, and whose Application initialised, returns without rejecting, and
\* the scene is not initialised afterwards.
C18_DestroyDuringInitSafe ==
  /\ \A c \in CallsOf("scene") :
       (initCalls[c].destroyedDuring /\ apps[initCalls[c].app].phase = "ready")
          => initCalls[c].pc # "rejected"
  /\ isDestroyed => ~isInitialized

\* The scene with the windows of the viewport system, a given elapsed time
\* and multiplier, in a given layout.
SceneAt(layout, elapsed, multiplier) ==
  [SceneFields(layout) EXCEPT !.maxTimeWindow = viewport.maxTimeWindow,
                              !.maxMultWindow = viewport.maxMultWindow,
                              !.elapsedSeconds = elapsed,
                              !.currentMultiplier = multiplier]

\* C19: no call of ViewportSystem.update lowers maxTimeWindow or maxMultWindow,
\* whatever the arguments and whatever the calls before it; a step that lowers
\* one is a reset.  For the same windows AviatorScene.updateViewport lowers
\* neither.
C19_WindowsNeverShrink ==
  /\ [][ \/ /\ viewport'.maxTimeWindow >= viewport.maxTimeWindow
            /\ viewport'.maxMultWindow >= viewport.maxMultWindow
         \/ VsReset ]_vars
  /\ [](\A layout \in Layouts, e \in ViewportElapsed, m \in ViewportMultipliers :
          /\ UpdateViewport(SceneAt(layout, e, m)).maxTimeWindow >= viewport.maxTimeWindow
          /\ UpdateViewport(SceneAt(layout, e, m)).maxMultWindow >= viewport.maxMultWindow)

\* Windows grown to 15 s and 6.25x, on a 1024x768 container.
C19_Witness ==
  /\ viewport.maxTimeWindow = 15000
  /\ viewport.maxMultWindow = 625
  /\ viewport.scaleX = 6426

----------------------------------------------------------------------------
(* Phase durations *)

\* C11: a tick that reads the clock less than 5.0 s after BETTING was entered
\* leaves the engine in BETTING; the first tick that reads it at 5.0 s or later
\* switches to FLYING with multiplier 1.00 and the phase timer restarted.
C11_BettingDuration ==
  [][ \A d \in TickSteps, k \in 0..Len(listeners) :
        (state.gameState = "BETTING" /\ Tick(d, k)) =>
          IF elapsedMs + d < BETTING_DURATION
            THEN /\ state'.gameState = "BETTING"
                 /\ elapsedMs' = elapsedMs + d
            ELSE /\ state'.gameState = "FLYING"
                 /\ state'.currentMultiplier = 100
                 /\ elapsedMs' = 0
    ]_vars

\* FLYING just entered by a tick, in a round after the first.
C11_Witness ==
  /\ state.gameState = "FLYING"
  /\ lastOp = "tick"
  /\ elapsedMs = 0
  /\ state.currentMultiplier = 100
  /\ state.countdown = 0
  /\ roundIdCounter > 1

\* C12 as claimed: every snapshot handed to a listener while the phase is
\* BETTING carries countdown = max(0, 5.0 - seconds since BETTING was entered),
\* and countdown is never negative.
C12_CountdownIsRemaining ==
  /\ state.countdown >= 0
  /\ \A i \in 1..Len(notified) :
       notified[i].snap.gameState = "BETTING" =>
         notified[i].snap.countdown = Max(0, BETTING_DURATION - elapsedMs)

\* C13: a tick in CRASHED moves to BETTING exactly when it reads the clock more
\* than 3.0 s after the crash, and then the multiplier is 1.00; otherwise the
\* engine stays in CRASHED with the multiplier at the crash point.
C13_PostCrashDuration ==
  [][ \A d \in TickSteps, k \in 0..Len(listeners) :
        (state.gameState = "CRASHED" /\ Tick(d, k)) =>
          IF elapsedMs + d > POST_CRASH_DURATION
            THEN /\ state'.gameState = "BETTING"
                 /\ state'.currentMultiplier = 100
                 /\ elapsedMs' = 0
            ELSE /\ state'.gameState = "CRASHED"
                 /\ state'.currentMultiplier = state.currentMultiplier
                 /\ elapsedMs' = elapsedMs + d
    ]_vars

\* A tick exactly 3.0 s after the crash: the engine is still in CRASHED.
C13_Witness ==
  /\ state.gameState = "CRASHED"
  /\ lastOp = "tick"
  /\ elapsedMs = POST_CRASH_DURATION

\* C14: while cleanup() is not called, every round that is under way ends in
\* CRASHED, and every CRASHED phase is followed by BETTING.  (Rounds are
\* followed up to roundCap; a round that starts within it is followed to its
\* crash and to the BETTING phase after it.)
C14_CyclesForever ==
  /\ (/\ loopInterval = "armed"
      /\ state.gameState \in {"BETTING", "FLYING"}
      /\ roundIdCounter <= roundCap) ~> (state.gameState = "CRASHED")
  /\ (loopInterval = "armed" /\ state.gameState = "CRASHED")
        ~> (state.gameState = "BETTING")

\* BETTING again after a round that flew to the 100.00 cap.
C14_Witness ==
  /\ state.gameState = "BETTING"
  /\ lastOp = "tick"
  /\ Len(state.history) > 0
  /\ state.history[1].multiplier = 10000

\* C15: of two engines that differ only in the crash point drawn, the states
\* handed to subscribers (phase, multiplier, countdown, history) are the same
\* as long as neither has crashed, that is at every tick before the one at
\* which the smaller crash point is reached.
C15_CrashPointHidden ==
  (Len(state.history) = 0 /\ Len(twin.e.state.history) = 0) =>
     /\ state = twin.e.state
     /\ elapsedMs = twin.e.elapsedMs

\* Both engines in flight at the same multiplier above 1.00, bound to crash at
\* different points.
C15_Witness ==
  /\ state.gameState = "FLYING"
  /\ twin.e.state.gameState = "FLYING"
  /\ crashPoint # twin.e.crashPoint
  /\ state.currentMultiplier > 100
  /\ state = twin.e.state

\* C16: cleanup() leaves the timer cancelled and the subscriber set empty; from
\* then on the timer stays cancelled, no tick runs, the engine's state, crash
\* point and round counter never change, and the only listener calls are the
\* immediate call of a subscribe() made after the cleanup.
C16_CleanupIsFinal ==
  [][ /\ lastOp' = "cleanup" =>
            /\ loopInterval' = "cleared"
            /\ listeners' = << >>
            /\ notified' = << >>
      /\ loopInterval = "cleared" =>
            /\ loopInterval' = "cleared"
            /\ lastOp' # "tick"
            /\ state' = state
            /\ crashPoint' = crashPoint
            /\ roundIdCounter' = roundIdCounter
            /\ notified' # << >> => lastOp' = "subscribe" /\ Len(notified') = 1
    ]_vars

\* An engine cleaned up in mid-flight, on which subscribe() was called since.
C16_Witness ==
  /\ loopInterval = "cleared"
  /\ lastOp = "subscribe"
  /\ state.gameState = "FLYING"
  /\ state.currentMultiplier > 100

\* The scene as resetScene() leaves it: default windows, the curve a single
\* point (0, 1.00), the plane at the origin.
SceneAtRest ==
  /\ maxTimeWindow = 10000
  /\ maxMultWindow = 200
  /\ curvePoints = << [t |-> 0, m |-> 100] >>
  /\ plane.x = PADDING_LEFT(Scn)
  /\ plane.y = height - PADDING_BOTTOM(Scn)

\* C20: a step in which the initialised scene changes phase into BETTING
\* (only updateState does that), and a resize() on an initialised scene whose
\* phase is IDLE or BETTING, both leave the default windows 10 s and 2.00,
\* the curve [(0, 1.00)] and the plane at (PADDING_LEFT, height - PADDING_BOTTOM)
\* of the new size; both are steps the handler completes on a live Application.
C20_ResetRestoresDefaults ==
  [][ /\ (isInitialized /\ currentState # "BETTING" /\ currentState' = "BETTING")
          => SceneAtRest'
      /\ \A r \in ResizeInputs :
           (isInitialized /\ currentState \in {"IDLE", "BETTING"}
              /\ Resize(r.width, r.height, r.innerWidth))
             => (SceneAtRest' /\ app' # NoApp /\ ~apps'[app'].destroyed)
    ]_vars

\* An initialised scene in BETTING after resize(320, 480) on a narrow window:
\* 400 x 480, mobile paddings, the plane at (40, 440).
C20_Witness ==
  /\ isInitialized
  /\ currentState = "BETTING"
  /\ width = 400 /\ height = 480 /\ isMobile
  /\ SceneAtRest
  /\ plane.x = 40 /\ plane.y = 440
  /\ scaleX = 3600

\* The elements of a free list are pairwise different objects.
NoDuplicates(pool) ==
  \A i, j \in 1..Len(pool) : i # j => pool[i] # pool[j]

\* C21: after any sequence of get and recycle calls each free list of
\* ParticleSystem holds at most MAX_POOL_SIZE objects, and a recycle on a list
\* that holds MAX_POOL_SIZE leaves it as it is; the same for the pools of
\* AviatorScene at these sizes, however many particles are recycled at once.
C21_PoolBounded ==
  /\ Len(psParticlePool) <= MAX_POOL_SIZE
  /\ Len(psExplosionParticlePool) <= MAX_POOL_SIZE
  /\ \A p \in psHeld.particle :
        /\ Len(PoolRecycle(psParticlePool, p)) <= MAX_POOL_SIZE
        /\ Len(psParticlePool) = MAX_POOL_SIZE
             => PoolRecycle(psParticlePool, p) = psParticlePool
  /\ \A p \in psHeld.explosion :
        /\ Len(PoolRecycle(psExplosionParticlePool, p)) <= MAX_POOL_SIZE
        /\ Len(psExplosionParticlePool) = MAX_POOL_SIZE
             => PoolRecycle(psExplosionParticlePool, p) = psExplosionParticlePool
  /\ \A pool \in {Len(psParticlePool), Len(psExplosionParticlePool)}, n \in 0..MaxHeld :
        /\ Recycle(pool, n) <= MAX_POOL_SIZE
        /\ pool = MAX_POOL_SIZE => Recycle(pool, n) = pool

\* A list filled up again after particles were taken from it, and a caller
\* that still holds a particle to recycle.
C21_Witness ==
  /\ Len(psExplosionParticlePool) = MAX_POOL_SIZE
  /\ psHeld.explosion # {}
  /\ psCalls >= 3

\* C22: no free list of ParticleSystem holds the same particle object twice,
\* whatever sequence of get and recycle calls preceded.
C22_NoDoubleReturn ==
  /\ NoDuplicates(psParticlePool)
  /\ NoDuplicates(psExplosionParticlePool)

\* A step that starts the fly-away sequence: an explosion is created, or the
\* fly-away physics goes from inactive to active.
FlyAwayStarts ==
  \/ explosionParticles' > explosionParticles
  \/ ~flyAwayPhysics.active /\ flyAwayPhysics'.active

\* C23: the fly-away sequence is started by the scene's change of phase from
\* FLYING to CRASHED and by no other step, a repeated CRASHED included; that
\* change starts it (physics active, flash at 1.0, exhaust cleared).
C23_FlyAwayOncePerCrash ==
  [][ /\ FlyAwayStarts => (currentState = "FLYING" /\ currentState' = "CRASHED")
      /\ (currentState = "FLYING" /\ currentState' = "CRASHED")
           => (flyAwayPhysics'.active /\ crashFlashAlpha' = 1000 /\ exhaustParticles' = 0)
    ]_vars

\* C24: a fly-away that has been started and whose update() keeps being
\* called with a positive deltaTime is inactive at some later moment.
C24_FlyAwayEnds == faPhysics.active ~> ~faPhysics.active

\* C29: while the animation is inactive update() leaves every physics field
\* as it is, whatever the dimensions and deltaTime; a start(x, y, rotation)
\* step leaves position (x, y), velocity 0, scale 1.0, alpha 1.0, the initial
\* angular velocity and active = true, whatever the physics was before.
C29_FlyAwayOneShot ==
  /\ [](~faPhysics.active =>
          \A dims \in FlyAwayDimensions, dt \in FrameIntervals :
             FlyAwayUpdate(faPhysics, faStartXY, dims, dt) = faPhysics)
  /\ [][ faStarts' # faStarts =>
           /\ faPhysics'.x = faStartXY'.x /\ faPhysics'.y = faStartXY'.y
           /\ faPhysics'.vx = 0 /\ faPhysics'.vy = 0
           /\ faPhysics'.scale = 1000 /\ faPhysics'.alpha = 1000
           /\ faPhysics'.angularVelocity = PHYSICS_FLY_AWAY_ANGULAR_VELOCITY
           /\ faPhysics'.active
           /\ \E x \in FlyAwayXs, y \in FlyAwayYs : faStartXY' = [x |-> x, y |-> y]
       ]_vars

\* A second start has been made and its animation has been ended by update(),
\* on the way and partly faded.
C29_Witness ==
  /\ faStarts = 2
  /\ ~faPhysics.active
  /\ faPhysics.vx > 0
  /\ IsFinite(faPhysics.x)
  /\ faPhysics.alpha \in 1..999

\* Two curve points further apart in t or in m than the recording threshold
\* of a mobile or a desktop layout (0.08, 0.05).
Apart(a, b, mobile) ==
  \/ JsGt(JsAbsDiff(a.t, b.t), IF mobile THEN 80 ELSE 50)
  \/ JsGt(JsAbsDiff(a.m, b.m), IF mobile THEN 8 ELSE 5)

\* A step that adds a point at the end of the curve.
PointAppended ==
  /\ Len(curvePoints') = Len(curvePoints) + 1
  /\ SubSeq(curvePoints', 1, Len(curvePoints)) = curvePoints

\* The origin (0, 1.0) that resetScene and drawCurve put in place of the curve.
CurveOrigin == << [t |-> 0, m |-> 100] >>

\* C25: a point is appended to the curve only by a call that leaves the scene
\* FLYING; the point is the (elapsedSeconds, multiplier) of the call and is
\* further than the threshold of the layout from the last recorded point in t
\* or in m, if there is one (an empty curve may also be replaced by its
\* origin). Any two consecutive points of the curve are further apart than the
\* threshold of the layout in t or in m.
C25_CurveSampling ==
  /\ [][ PointAppended =>
           \/ curvePoints = << >> /\ curvePoints' = CurveOrigin
           \/ /\ currentState' = "FLYING"
              /\ curvePoints'[Len(curvePoints')] =
                   [t |-> elapsedSeconds', m |-> currentMultiplier']
              /\ \/ curvePoints = << >>
                 \/ Apart(curvePoints'[Len(curvePoints')],
                          curvePoints[Len(curvePoints)], isMobile)
       ]_vars
  /\ [](\A i \in 1..(Len(curvePoints) - 1) :
          Apart(curvePoints[i], curvePoints[i + 1], isMobile))

\* A curve whose last two points were recorded at the same time and 0.12 apart
\* on a desktop layout: inside the threshold in t, outside it in m.
C25_Witness ==
  /\ ~isMobile
  /\ currentState = "FLYING"
  /\ Len(curvePoints) >= 2
  /\ curvePoints[Len(curvePoints)].t = curvePoints[Len(curvePoints) - 1].t
  /\ curvePoints[Len(curvePoints)].m - curvePoints[Len(curvePoints) - 1].m = 12

----------------------------------------------------------------------------
(* Round numbering and the crash point *)

\* A step in which the engine crashes.
Crashes == state.gameState = "FLYING" /\ state'.gameState = "CRASHED"

\* C26: the counter never decreases and a crash advances it by one; the crash
\* puts at index 0 an entry whose roundId is one more than that of the entry
\* it pushes down (1 for the first crash), and no other step touches the
\* history; hence the roundIds held are strictly decreasing from index 0, and
\* pairwise distinct.
C26_RoundIdsIncrease ==
  /\ [][ /\ roundIdCounter' >= roundIdCounter
         /\ Crashes =>
              /\ roundIdCounter' = roundIdCounter + 1
              /\ Len(state'.history) >= 1
              /\ state'.history[1].roundId =
                   IF state.history = << >> THEN 1 ELSE state.history[1].roundId + 1
         /\ ~Crashes => state'.history = state.history
       ]_vars
  /\ [](\A i, j \in 1..Len(state.history) :
          i < j => state.history[i].roundId > state.history[j].roundId)

\* Three rounds have crashed: rounds 3, 2, 1 are held in that order.
C26_Witness ==
  /\ state.gameState = "CRASHED"
  /\ Len(state.history) = 3
  /\ state.history[1].roundId = 3
  /\ state.history[3].roundId = 1

\* A step in which the engine enters BETTING.
EntersBetting == state.gameState # "BETTING" /\ state'.gameState = "BETTING"

\* C27: a step that enters BETTING stores the crash point generateNextCrashPoint
\* draws at that moment, consuming one generation's draws; every other step
\* (a tick inside BETTING, FLYING or CRASHED, the change to FLYING, the crash)
\* leaves the crash point and the stream position as they are; the crash that
\* ends a flight shows and records that same crash point, which the flight's
\* multiplier has reached.
C27_CrashPointPerRound ==
  [][ /\ EntersBetting =>
           /\ crashPoint' = GenerateNextCrashPoint(Eng, rngStream).crashPoint
           /\ rngPos' = GenerateNextCrashPoint(Eng, rngStream).rngPos
      /\ ~EntersBetting => crashPoint' = crashPoint /\ rngPos' = rngPos
      /\ Crashes =>
           /\ state'.currentMultiplier = crashPoint
           /\ state'.history[1].multiplier = crashPoint
           /\ \E d \in TickSteps : RawMultiplier(elapsedMs + d) >= crashPoint
    ]_vars

\* The second round flies towards a crash point other than the first round's.
C27_Witness ==
  /\ state.gameState = "FLYING"
  /\ roundIdCounter = 2
  /\ crashPoint # state.history[1].multiplier

----------------------------------------------------------------------------
(* Unsubscribing *)

\* The calls among cs that went to listener l.
CallsAmong(cs, l) == { i \in 1..Len(cs) : cs[i].listener = l }

\* C28: a call of an unsubscribe closure, repeated or not, raises nothing and
\* removes at most its own listener; in a tick during which listeners call
\* their own unsubscribe closure from inside their callback nothing is raised,
\* every listener registered when the tick began is called exactly once with
\* the state the tick left, and exactly the listeners that unsubscribed are
\* gone afterwards; a later tick in which no listener throws calls every
\* listener still registered exactly once.
C28_UnsubscribeSafe ==
  [][ /\ lastOp' = "unsubscribe" =>
           /\ thrown' = 0
           /\ Cardinality(SeqRange(listeners) \ SeqRange(listeners')) <= 1
           /\ SeqRange(listeners') \subseteq SeqRange(listeners)
      /\ lastOp' = "tickUnsubscribing" =>
           /\ thrown' = 0
           /\ \A l \in SeqRange(listeners) : Cardinality(CallsAmong(notified', l)) = 1
           /\ \A i \in 1..Len(notified') : notified'[i].snap = state'
           /\ SeqRange(listeners') =
                SeqRange(listeners) \
                  { notified'[i].listener :
                      i \in { j \in 1..Len(notified') : notified'[j].unsubscribes } }
      /\ lastOp' = "tick" /\ thrown' = 0 =>
           \A l \in SeqRange(listeners) : Cardinality(CallsAmong(notified', l)) = 1
    ]_vars

\* The first of two listeners unsubscribed inside its callback; the second was
\* notified in the same tick and is still registered.
C28_Witness ==
  /\ lastOp = "tickUnsubscribing"
  /\ Len(notified) = 2
  /\ notified[1].unsubscribes
  /\ ~notified[2].unsubscribes
  /\ listeners = << notified[2].listener >>

----------------------------------------------------------------------------
(* The scene's pools over rounds *)

\* C30 as claimed: no pooled particle of the scene is lost, every particle
\* that left a pool being in a live list or back in the pool, and every reset
\* at an entry to BETTING leaves the plain pool and the explosion pool with
\* MAX_POOL_SIZE objects.
C30_NoParticleLost ==
  /\ [](/\ particlePool + exhaustParticles >= MAX_POOL_SIZE
        /\ explosionParticlePool + explosionParticles >= MAX_POOL_SIZE)
  /\ [][ currentState # "BETTING" /\ currentState' = "BETTING" =>
           /\ particlePool' = MAX_POOL_SIZE
           /\ explosionParticlePool' = MAX_POOL_SIZE
       ]_vars

NoRepeat(s) == \A i, j \in DOMAIN s : i # j => s[i] # s[j]

\* C31: with ExhaustEffect and ExplosionEffect on one ParticleSystem, after
\* every emit/create, update and clear no particle is both in an effect's
\* live list and in the pool's free list; after an update() every particle
\* still live has life > 0, and every particle that was live before is
\* either still live or was handed to recycle, exactly once, and is live no
\* more.
C31_LiveOrPooled ==
  /\ [](/\ ParticleIds(exhaustEffect.particles) \cap SeqRange(psParticlePool) = {}
        /\ ParticleIds(explosionEffect.particles) \cap SeqRange(psExplosionParticlePool) = {}
        /\ NoRepeat(fxLog.recycled)
        /\ fxLog.op = "exhaustUpdate" =>
             /\ \A i \in DOMAIN exhaustEffect.particles : exhaustEffect.particles[i].life > 0
             /\ SeqRange(fxLog.recycled) \cap ParticleIds(exhaustEffect.particles) = {}
        /\ fxLog.op = "explosionUpdate" =>
             /\ \A i \in DOMAIN explosionEffect.particles : explosionEffect.particles[i].life > 0
             /\ SeqRange(fxLog.recycled) \cap ParticleIds(explosionEffect.particles) = {})
  /\ [][ /\ fxLog'.op = "exhaustUpdate" /\ fxLog'.calls # fxLog.calls =>
              ParticleIds(exhaustEffect.particles)
                = ParticleIds(exhaustEffect'.particles) \cup SeqRange(fxLog'.recycled)
         /\ fxLog'.op = "explosionUpdate" /\ fxLog'.calls # fxLog.calls =>
              ParticleIds(explosionEffect.particles)
                \subseteq ParticleIds(explosionEffect'.particles) \cup SeqRange(fxLog'.recycled)
       ]_vars

\* The explosion's update() has culled expired particles while others live
\* on, next to an exhaust whose particles are out of the shared pools.
C31_Witness ==
  /\ fxLog.op = "explosionUpdate"
  /\ fxLog.recycled # << >>
  /\ explosionEffect.particles # << >>
  /\ exhaustEffect.particles # << >>
  /\ Len(psParticlePool) + Len(exhaustEffect.particles) = MAX_POOL_SIZE
  /\ Len(psParticlePool) < MAX_POOL_SIZE - 1

\* The multiplier of a round state is within the crash point of its round.
WithinCrashPoint(s) ==
  /\ s.gameState = "FLYING" => s.currentMultiplier <= crashPoint
  /\ s.gameState = "CRASHED" => s.currentMultiplier = crashPoint

\* C32: no multiplier published for a round exceeds the round's crash point:
\* the engine's state and every snapshot handed to a listener carry a
\* multiplier <= crashPoint while FLYING and exactly crashPoint while CRASHED.
C32_MultiplierWithinCrashPoint ==
  constructed =>
    /\ WithinCrashPoint(state)
    /\ \A i \in DOMAIN notified : WithinCrashPoint(notified[i].snap)

\* A tick has handed a listener the snapshot of a crash above 1.00.
C32_Witness ==
  /\ lastOp = "tick"
  /\ Len(notified) > 0
  /\ notified[1].snap.gameState = "CRASHED"
  /\ notified[1].snap.currentMultiplier = crashPoint
  /\ crashPoint > 100

\* C33: after any sequence of accepted updateState calls the scene's fly-away
\* physics is active only while its current phase is CRASHED.
C33_FlyAwayOnlyWhileCrashed ==
  flyAwayPhysics.active => currentState = "CRASHED"

\* C34: once the fly-away has ended and hidden the plane in the CRASHED
\* phase, every later step that does not take the scene to BETTING leaves the
\* plane invisible.
C34_HiddenUntilBetting ==
  [][ /\ currentState = "CRASHED"
      /\ ~flyAwayPhysics.active
      /\ ~plane.visible
      /\ currentState' # "BETTING"
      => ~plane'.visible ]_vars

\* The Applications an object has created and not destroyed.
LiveApplications(owner) ==
  { a \in DOMAIN apps : apps[a].owner = owner /\ ~apps[a].destroyed }

\* C35: whatever the interleaving of init() calls on one AviatorScene or one
\* SceneManager, a second init() during the first one's await included, the
\* object has at most one Application that it created and did not destroy,
\* and at most one canvas attached to the container.
C35_OneRenderContext ==
  \A owner \in {"scene", "manager"} :
    /\ Cardinality(LiveApplications(owner)) <= 1
    /\ Cardinality({ a \in LiveApplications(owner) : apps[a].canvasAttached }) <= 1

\* x <= 0.8 * w, to the resolution of the model (x / 0.8 is cut to a whole
\* millisecond or hundredth).
Within80(x, w) ==
  \/ w = PosInf /\ x # NaN
  \/ IsFinite(x) /\ IsFinite(w) /\ x * 10 <= (w + 1) * 8

\* x >= y as JavaScript compares, y finite.
JsGe(x, y) == x = PosInf \/ (IsFinite(x) /\ x >= y)

\* What C37 says of the viewport v left by update(elapsed, multiplier, ...).
Fits(v, elapsed, multiplier) ==
  /\ Within80(elapsed, v.maxTimeWindow)
  /\ Within80(multiplier, v.maxMultWindow)
  /\ JsGe(v.maxTimeWindow, 10000)
  /\ JsGe(v.maxMultWindow, 200)
  /\ IsFinite(v.scaleX) /\ v.scaleX > 0
  /\ IsFinite(v.scaleY) /\ v.scaleY > 0

\* C37: whatever the viewport, after update(elapsedSeconds, multiplier,
\* dimensions) with elapsedSeconds >= 0 and multiplier >= 1 the two values are
\* within 80% of their windows, the windows are at least 10 and 2.0, and
\* scaleX and scaleY are positive and finite.
C37_WithinEightyPercent ==
  \A elapsed \in ViewportElapsed, multiplier \in ViewportMultipliers,
     dimensions \in ViewportDimensions :
    JsGe(elapsed, 0) /\ JsGe(multiplier, 100) =>
      Fits(ViewportUpdate(viewport, elapsed, multiplier, dimensions), elapsed, multiplier)

\* C36: ExplosionEffect emits the secondary burst only in an update() that
\* follows a create(), only when no burst was emitted since that create(),
\* and only when more than 0.1 s of deltaTime was handed to update() since
\* that create().
C36_SecondaryOncePerCreate ==
  [][ fxLog'.burst /\ fxLog'.calls # fxLog.calls =>
        /\ fxLog.created
        /\ fxLog.bursts = 0
        /\ fxLog'.updated > SECONDARY_DELAY ]_vars

====
